---- MODULE Spec2Model ----
(***************************************************************************)
(* terraform-provider-terrapwner: the data sources' Read handlers and the  *)
(* helpers they call (utils.Execute, utils.DownloadFile, the network       *)
(* probes), as one timed state machine.  One behaviour is one Read: the    *)
(* framework hands Read a configuration and a context, Read blocks in a    *)
(* helper (a download, a command, a dial) while the clock runs, and then   *)
(* adds diagnostics and possibly writes state.                             *)
(*                                                                         *)
(* Time is counted in whole seconds.  A handler step that is enabled runs  *)
(* before the clock advances (Tick is disabled while one is due).          *)
(***************************************************************************)
EXTENDS Integers, Sequences, FiniteSets, TLC

VARIABLES
    now,          \* the clock, in seconds
    pc,           \* position of the Read in progress
    ds,           \* the data source being read
    provider,     \* TerrapwnerProviderModel, as configured
    config,       \* req.Config as Read decodes it into its model struct
    data,         \* the Read's model struct: configuration and computed fields
    ctx,          \* the context the framework passes to Read
    cancelledAt,  \* when the caller cancelled ctx, NotYet before
    startTime,    \* Read's startTime / start
    exec,         \* the utils.Execute call of this Read
    dl,           \* the utils.DownloadFile call of this Read
    scriptRet,    \* what executeScript returned to this Read
    probe,        \* the network operation of this Read
    tmpFiles,     \* temporary files on disk
    exfil,        \* the HTTP request of terrapwner_exfil
    environ,      \* os.Environ() of the provider process when Read runs
    aws,          \* what the AWS SDK answers to terrapwner_identity
    diags,        \* resp.Diagnostics
    state,        \* resp.State
    reads,        \* the terrapwner_remote_exec Reads that run concurrently
    tmpDir        \* the temporary files of the concurrent Reads: name -> content

vars == <<now, pc, ds, provider, config, data, ctx, cancelledAt, startTime, exec, dl,
          scriptRet, probe, tmpFiles, exfil, environ, aws, diags, state, reads,
          tmpDir>>

---------------------------------------------------------------------------
(* Bounds of the model *)

\* the clock stops here
MaxTime == 33
\* a command that exits on its own does so within this many seconds; any
\* other runs until it is stopped
MaxRunTime == 2
\* a server that answers does so within this many seconds; any other never does
MaxLatency == 1
\* exit codes of commands are 0..MaxExitCode
MaxExitCode == 1
\* the timeout attribute of terrapwner_local_exec is null or 1..MaxTimeoutAttr
MaxTimeoutAttr == 2
\* the deadline of the caller's context is absent or 1..MaxCtxDeadline
MaxCtxDeadline == 2
\* argument lists hold at most this many words
MaxArgs == 2

---------------------------------------------------------------------------
(* Program constants *)

\* defaultCommandTimeout, in seconds
defaultCommandTimeout == 30
\* the timeout executeScript passes to utils.Execute, in seconds
scriptTimeout == 30
\* downloadTimeout, in seconds
downloadTimeout == 10
\* http.StatusOK
StatusOK == 200

---------------------------------------------------------------------------
(* Framework values: types.Bool, types.Int64, types.String, types.List *)

BoolNull == [null |-> TRUE, v |-> FALSE]
BoolValue(b) == [null |-> FALSE, v |-> b]
Int64Null == [null |-> TRUE, v |-> 0]
Int64Value(n) == [null |-> FALSE, v |-> n]
StringNull == [null |-> TRUE, v |-> ""]
StringValue(s) == [null |-> FALSE, v |-> s]
ListNull == [null |-> TRUE, v |-> <<>>]
ListValue(l) == [null |-> FALSE, v |-> l]
IsNull(x) == x.null
ValueBool(x) == x.v
ValueInt64(x) == x.v
ValueString(x) == x.v

BoolAttrs == {BoolNull, BoolValue(TRUE), BoolValue(FALSE)}

(* diag.Diagnostics *)
Diag(sev, summary, detail) == [severity |-> sev, summary |-> summary, detail |-> detail]
AddError(d, summary, detail) == Append(d, Diag("error", summary, detail))
AddWarning(d, summary, detail) == Append(d, Diag("warning", summary, detail))
HasError(d) == \E i \in 1..Len(d) : d[i].severity = "error"
HasWarning(d) == \E i \in 1..Len(d) : d[i].severity = "warning"

(* resp.State *)
NoState == [set |-> FALSE]
StateSet(d) == [set |-> TRUE, data |-> d]

---------------------------------------------------------------------------
(* context.Context *)

\* no time: the context has not been cancelled
NotYet == 0 - 1
NilErr == ""
Canceled == "context canceled"
DeadlineExceeded == "context deadline exceeded"

\* context.Background()
Background == [hasDeadline |-> FALSE, deadline |-> 0, parent |-> FALSE]
\* a context of the caller, cancellable by the caller
CallerCtx(hasDeadline, deadline) ==
    [hasDeadline |-> hasDeadline, deadline |-> deadline, parent |-> TRUE]

\* context.WithTimeout(c, d) at time t: the earlier deadline wins, the
\* parent's cancellation is inherited
WithTimeout(c, t, d) ==
    IF c.hasDeadline /\ c.deadline <= t + d
    THEN c
    ELSE [c EXCEPT !.hasDeadline = TRUE, !.deadline = t + d]

\* c.Err() at time t
CtxErrAt(c, t, cancelAt) ==
    IF c.parent /\ cancelAt # NotYet THEN Canceled
    ELSE IF c.hasDeadline /\ t >= c.deadline THEN DeadlineExceeded
    ELSE NilErr

CtxErr(c) == CtxErrAt(c, now, cancelledAt)

---------------------------------------------------------------------------
(* Inputs of a Read and the environment it runs in *)

\* the executables found in $PATH
Executables == {"sh"}
\* names a configuration may give as the executable or the interpreter
CommandNames == {"sh", "nonexistent"}
ArgWords == {"a", "b"}
\* the sequences over S of length at most n
RECURSIVE SeqsUpTo(_, _)
SeqsUpTo(S, n) ==
    IF n = 0 THEN {<<>>}
    ELSE LET shorter == SeqsUpTo(S, n - 1)
         IN shorter \cup {Append(l, w) : l \in shorter, w \in S}
\* argument lists: no word twice
ArgLists ==
    {l \in SeqsUpTo(ArgWords, MaxArgs) : \A i, j \in 1..Len(l) : l[i] = l[j] => i = j}
\* the command attribute of terrapwner_local_exec
CommandLists == {<<>>} \cup {<<n>> \o a : n \in CommandNames, a \in ArgLists}
\* what a command writes to standard output and to standard error
Stdouts == {"", "out\n"}
Stderrs == {"", "err\n"}
ExitCodes == 0..MaxExitCode
\* the timeout attribute of terrapwner_local_exec, in seconds
TimeoutAttrs == {Int64Null} \cup {Int64Value(n) : n \in 1..MaxTimeoutAttr}
\* the contexts the framework may pass to Read
CallerCtxs == {CallerCtx(FALSE, 0)} \cup {CallerCtx(TRUE, t) : t \in 1..MaxCtxDeadline}

---------------------------------------------------------------------------
(* utils.Execute and utils.ExecResult *)

NilResult == [nil |-> TRUE, Stdout |-> "", Stderr |-> "", ExitCode |-> 0]
ExecResult(out, err, code) == [nil |-> FALSE, Stdout |-> out, Stderr |-> err, ExitCode |-> code]

\* no Execute call yet
ExecNone ==
    [called |-> FALSE, started |-> FALSE, returned |-> FALSE, exited |-> FALSE,
     command |-> "", args |-> <<>>, timeout |-> 0, ctx |-> Background,
     startedAt |-> 0, returnedAt |-> 0, proc |-> [out |-> "", err |-> "", code |-> 0],
     result |-> NilResult, err |-> NilErr]

\* exec.LookPath
LookPath(name) == name \in Executables
\* the error of cmd.Start for a name that is not in $PATH
StartError(name) == "exec: \"" \o name \o "\": executable file not found in $PATH"

\* Execute's own context: the caller's, bounded by the timeout argument
ExecuteCtxNoTimeout(c, t, timeout) == c
ExecuteCtxBackground(c, t, timeout) == WithTimeout(Background, t, timeout)
ExecuteCtx(c, t, timeout) == WithTimeout(c, t, timeout)

\* the error Execute returns when its context is done before the command exits
ExecuteCtxError(e) == CtxErr(e.ctx)

\* Execute up to the point where it waits: the command is started when it is
\* found in $PATH, or Execute returns at once with the start error
ExecuteStartFound(c, command, args, timeout, t, found) ==
    LET e == [ExecNone EXCEPT !.called = TRUE, !.command = command, !.args = args,
                              !.timeout = timeout, !.ctx = ExecuteCtx(c, t, timeout),
                              !.startedAt = t]
    IN IF found
       THEN [e EXCEPT !.started = TRUE]
       ELSE [e EXCEPT !.returned = TRUE, !.returnedAt = t,
                      !.err = "failed to start command: " \o StartError(command)]

ExecuteStart(c, command, args, timeout, t) ==
    ExecuteStartFound(c, command, args, timeout, t, LookPath(command))

\* Execute stops waiting when its context is done
ExecuteWaitDone(e) == e.started /\ ~e.returned /\ ExecuteCtxError(e) # NilErr

\* Execute returns because its context is done: no result, the context's error
ExecuteCtxReturn(e, t) ==
    [e EXCEPT !.returned = TRUE, !.returnedAt = t, !.err = ExecuteCtxError(e)]

\* Execute returns because the command exited, having written out and err and
\* exited with code: the result, no error
ExecuteExitReturn(e, t, out, err, code) ==
    [e EXCEPT !.returned = TRUE, !.returnedAt = t, !.exited = TRUE,
              !.proc = [out |-> out, err |-> err, code |-> code],
              !.result = ExecResult(out, err, code)]

---------------------------------------------------------------------------
(* terrapwner_local_exec *)

LocalExecModel(command, timeout, expectSuccess, failOnError) ==
    [Command |-> command, Timeout |-> timeout, ExpectSuccess |-> expectSuccess,
     FailOnError |-> failOnError, Success |-> BoolNull, Stdout |-> StringNull,
     Stderr |-> StringNull, ExitCode |-> Int64Null, FailReason |-> StringNull,
     DurationMs |-> Int64Null]

\* a Read that leaves an unset timeout unset
LocalExecDefaultsNoTimeout(d) ==
    [d EXCEPT !.ExpectSuccess = IF IsNull(@) THEN BoolValue(TRUE) ELSE @,
              !.FailOnError = IF IsNull(@) THEN BoolValue(FALSE) ELSE @]

\* Read: "Set default values"
LocalExecDefaults(d) ==
    [d EXCEPT !.Timeout = IF IsNull(@) THEN Int64Value(defaultCommandTimeout) ELSE @,
              !.ExpectSuccess = IF IsNull(@) THEN BoolValue(TRUE) ELSE @,
              !.FailOnError = IF IsNull(@) THEN BoolValue(FALSE) ELSE @]

\* time.Since(start).Milliseconds()
Milliseconds(start, t) == (t - start) * 1000

\* Read with an empty command list
LocalExecEmptyCommand(d, dg) ==
    [data |-> d, diags |-> AddError(dg, "Invalid command", "Command list cannot be empty"),
     state |-> NoState]

\* Read after utils.Execute returned an error
LocalExecExecuteErrorAlwaysFails(d1, dg) ==
    [data |-> d1,
     diags |-> AddError(dg, "Command execution failed", ValueString(d1.FailReason)),
     state |-> NoState]
LocalExecExecuteError(d1, dg) ==
    IF ValueBool(d1.FailOnError)
    THEN [data |-> d1,
          diags |-> AddError(dg, "Command execution failed", ValueString(d1.FailReason)),
          state |-> NoState]
    ELSE [data |-> d1, diags |-> dg, state |-> StateSet(d1)]

\* Read after utils.Execute returned a result
LocalExecExitedIgnoresFailOnError(d1, res, dg) ==
    [data |-> d1, diags |-> dg, state |-> StateSet(d1)]
\* a Read that fails when the command was expected to succeed and did not
LocalExecExitedExpectsSuccess(d1, res, dg) ==
    IF ~ValueBool(d1.Success) /\ (ValueBool(d1.FailOnError) \/ ValueBool(d1.ExpectSuccess))
    THEN [data |-> d1,
          diags |-> AddError(dg, "Command failed",
                             "Command exited with code " \o ToString(res.ExitCode)
                                 \o ": " \o res.Stderr),
          state |-> NoState]
    ELSE [data |-> d1, diags |-> dg, state |-> StateSet(d1)]
LocalExecExited(d1, res, dg) ==
    IF ~ValueBool(d1.Success) /\ ValueBool(d1.FailOnError)
    THEN [data |-> d1,
          diags |-> AddError(dg, "Command failed",
                             "Command exited with code " \o ToString(res.ExitCode)
                                 \o ": " \o res.Stderr),
          state |-> NoState]
    ELSE [data |-> d1, diags |-> dg, state |-> StateSet(d1)]

\* Read from the return of utils.Execute to its own return
LocalExecFinish(d, e, dg, start, t) ==
    IF e.err # NilErr
    THEN LocalExecExecuteError(
             [d EXCEPT !.Success = BoolValue(FALSE),
                       !.FailReason = StringValue("Failed to execute command: " \o e.err),
                       !.ExitCode = Int64Value(-1),
                       !.DurationMs = Int64Value(Milliseconds(start, t))], dg)
    ELSE LocalExecExited(
             [d EXCEPT !.Success = BoolValue(e.result.ExitCode = 0),
                       !.Stdout = StringValue(e.result.Stdout),
                       !.Stderr = StringValue(e.result.Stderr),
                       !.ExitCode = Int64Value(e.result.ExitCode),
                       !.FailReason = StringValue(""),
                       !.DurationMs = Int64Value(Milliseconds(start, t))],
             e.result, dg)

---------------------------------------------------------------------------
(* utils.DownloadFile *)

\* the url attribute: a script a server may serve, a URL that does not parse,
\* a URL whose scheme no transport serves, the empty URL
GoodUrl == "http://host/script.sh"
EmptyUrl == ""
MalformedUrl == "http://[::1]:namedport"
BadSchemeUrl == "invalid://example.com"
Urls == {GoodUrl, MalformedUrl, BadSchemeUrl, EmptyUrl}
\* http.NewRequestWithContext parses the URL
UrlParses(u) == u # MalformedUrl
\* the transport of http.Client serves the scheme
SchemeSupported(u) == u = GoodUrl
\* the status codes a server answers with
StatusCodes == {StatusOK, 204, 404, 500}
\* the bodies a server answers with
Bodies == {"", "echo hi\n"}

\* an os.CreateTemp that gives every caller the same name
TempNameFixed(files) == "/tmp/terrapwner-1"

\* os.CreateTemp("", "terrapwner-*"): a name that no file has
TempName(files) ==
    LET n == CHOOSE k \in 1..(Cardinality(files) + 1) :
                 ("/tmp/terrapwner-" \o ToString(k)) \notin files
    IN "/tmp/terrapwner-" \o ToString(n)

\* no DownloadFile call yet
DownloadNone ==
    [called |-> FALSE, sent |-> FALSE, returned |-> FALSE, url |-> "", tmp |-> "",
     written |-> "", sentAt |-> 0, status |-> 0, body |-> "", path |-> "",
     err |-> NilErr]

\* DownloadFile returns
DownloadReturn(d, path, err) == [d EXCEPT !.returned = TRUE, !.path = path, !.err = err]

\* DownloadFile up to client.Do: the temporary file, then the request
DownloadStart(url, files, createTempOk, t) ==
    LET d == [DownloadNone EXCEPT !.called = TRUE, !.url = url]
        f == [d EXCEPT !.tmp = TempName(files)]
    IN IF ~createTempOk
       THEN DownloadReturn(d, "", "failed to create temporary file: open: no space left on device")
       ELSE IF ~UrlParses(url)
       THEN DownloadReturn(f, "", "failed to create request: parse \"" \o url
                                      \o "\": invalid port")
       ELSE IF ~SchemeSupported(url)
       THEN DownloadReturn(f, "", "failed to download file: Get \"" \o url
                                      \o "\": unsupported protocol scheme")
       ELSE [f EXCEPT !.sent = TRUE, !.sentAt = t]

\* the error of client.Do when the request's context is done or Client.Timeout passed
DownloadDoError(d, t, cancelAt) ==
    IF CtxErrAt(ctx, t, cancelAt) # NilErr
    THEN "failed to download file: Get \"" \o d.url \o "\": " \o CtxErrAt(ctx, t, cancelAt)
    ELSE "failed to download file: Get \"" \o d.url \o "\": " \o DeadlineExceeded
             \o " (Client.Timeout exceeded while awaiting headers)"

\* a client.Do that waits for Client.Timeout only
DownloadWaitDoneNoCtx(d) ==
    d.sent /\ ~d.returned /\ now >= d.sentAt + downloadTimeout

\* client.Do stops waiting for the server
DownloadWaitDone(d) ==
    d.sent /\ ~d.returned /\ (CtxErr(ctx) # NilErr \/ now >= d.sentAt + downloadTimeout)

\* a DownloadFile that accepts every 2xx status
DownloadResponseAny2xx(d, status, body, copyOk, absOk) ==
    IF status < 200 \/ status >= 300
    THEN DownloadReturn(d, "", "failed to download file: status code " \o ToString(status))
    ELSE DownloadReturn([d EXCEPT !.written = body], d.tmp, NilErr)

\* DownloadFile from the server's response (status, body) to its return;
\* written is what io.Copy has put in the temporary file
DownloadResponse(d, status, body, copyOk, absOk) ==
    IF status # StatusOK
    THEN DownloadReturn(d, "", "failed to download file: status code " \o ToString(status))
    ELSE IF ~copyOk
    THEN DownloadReturn(d, "", "failed to save file: unexpected EOF")
    ELSE IF ~absOk
    THEN DownloadReturn([d EXCEPT !.written = body], "",
                        "failed to get absolute path: getwd: no such file or directory")
    ELSE DownloadReturn([d EXCEPT !.written = body], d.tmp, NilErr)

---------------------------------------------------------------------------
(* terrapwner_remote_exec *)

RemoteExecModel(url, interpreter, args, expectSuccess, failOnError) ==
    [URL |-> url, Interpreter |-> interpreter, Args |-> args,
     ExpectSuccess |-> expectSuccess, FailOnError |-> failOnError,
     Success |-> BoolNull, Stdout |-> StringNull, Stderr |-> StringNull,
     ExitCode |-> Int64Null]

\* Read: "Set default value for fail_on_error to false if not provided"
RemoteExecDefaults(d) ==
    [d EXCEPT !.FailOnError = IF IsNull(@) THEN BoolValue(FALSE) ELSE @]

\* downloadScript after utils.DownloadFile returned: [path, err]
downloadScript(d, chmodOk) ==
    IF d.err # NilErr THEN [path |-> "", err |-> d.err]
    ELSE IF ~chmodOk
    THEN [path |-> "", err |-> "failed to make script executable: chmod "
                                   \o d.path \o ": operation not permitted"]
    ELSE [path |-> d.path, err |-> NilErr]

\* the arguments executeScript passes to utils.Execute
\* an executeScript that passes the script path after the arguments
ScriptArgsPathLast(scriptPath, args) == args \o <<scriptPath>>
ScriptArgs(scriptPath, args) == <<scriptPath>> \o args

\* executeScript after utils.Execute returned: [result, err]
executeScriptFailsOnExitCode(e) ==
    IF e.err # NilErr \/ e.result.ExitCode # 0
    THEN [result |-> NilResult, err |-> "failed to execute script: " \o e.err]
    ELSE [result |-> e.result, err |-> NilErr]
executeScript(e) ==
    IF e.err # NilErr
    THEN [result |-> NilResult, err |-> "failed to execute script: " \o e.err]
    ELSE [result |-> e.result, err |-> NilErr]

\* Read's handling of an error of downloadScript or executeScript
RemoteExecErrorAlwaysWarns(d, summary, err, dg) ==
    LET d1 == [d EXCEPT !.Success = BoolValue(FALSE), !.Stdout = StringValue(""),
                        !.Stderr = StringValue(err), !.ExitCode = Int64Value(-1)]
    IN [data |-> d1, diags |-> AddWarning(dg, summary, err), state |-> StateSet(d1)]
RemoteExecErrorAlwaysFails(d, summary, err, dg) ==
    [data |-> d, diags |-> AddError(dg, summary, err), state |-> NoState]
RemoteExecError(d, summary, err, dg) ==
    IF ~IsNull(d.FailOnError) /\ ValueBool(d.FailOnError)
    THEN [data |-> d, diags |-> AddError(dg, summary, err), state |-> NoState]
    ELSE LET d1 == [d EXCEPT !.Success = BoolValue(FALSE), !.Stdout = StringValue(""),
                             !.Stderr = StringValue(err), !.ExitCode = Int64Value(-1)]
         IN [data |-> d1, diags |-> AddWarning(dg, summary, err), state |-> StateSet(d1)]

\* Read after downloadScript returned an error
RemoteExecDownloadFailed(d, err, dg) == RemoteExecError(d, "Failed to download script", err, dg)

\* a Read that reports every completed script as a success
RemoteExecResultAlwaysSuccess(d, res, dg) ==
    LET d1 == [d EXCEPT !.Success = BoolValue(TRUE),
                        !.Stdout = StringValue(res.Stdout),
                        !.Stderr = StringValue(res.Stderr),
                        !.ExitCode = Int64Value(res.ExitCode)]
    IN [data |-> d1, diags |-> dg, state |-> StateSet(d1)]

\* Read: "Update the model with the result" and "Save data into Terraform state"
RemoteExecResult(d, res, dg) ==
    LET d1 == [d EXCEPT !.Success = BoolValue(res.ExitCode = 0),
                        !.Stdout = StringValue(res.Stdout),
                        !.Stderr = StringValue(res.Stderr),
                        !.ExitCode = Int64Value(res.ExitCode)]
    IN [data |-> d1, diags |-> dg, state |-> StateSet(d1)]

\* Read from the return of utils.Execute to its own return
RemoteExecFinish(d, e, dg) ==
    LET r == executeScript(e)
    IN IF r.err # NilErr
       THEN RemoteExecError(d, "Failed to execute script", r.err, dg)
       ELSE RemoteExecResult(d, r.result, dg)

---------------------------------------------------------------------------
(* terrapwner_network_probe *)

\* the timeout of net.DialTimeout in probeTCP, probeUDP and probeICMP, in seconds
dialTimeout == 5
\* Read's default for the timeout attribute, in seconds
defaultProbeTimeout == 5
\* the timeout attribute is null, 1 or MaxProbeTimeout: below and above dialTimeout
MaxProbeTimeout == 6
\* a host name resolves to at most this many addresses
MaxIPs == 2

ProbeTypes == {"dns", "tcp", "udp", "icmp", "invalid", ""}
ProbeHosts == {"", "host"}
ProbePorts == {Int64Null, Int64Value(0 - 1), Int64Value(0), Int64Value(80),
               Int64Value(65536)}
ProbeTimeouts == {Int64Null, Int64Value(1), Int64Value(MaxProbeTimeout)}

NetworkProbeModel(type, host, port, expectSuccess, timeout) ==
    [Type |-> type, Host |-> host, Port |-> port, ExpectSuccess |-> expectSuccess,
     Timeout |-> timeout, Success |-> BoolNull, FailReason |-> StringNull,
     DurationMs |-> Int64Null]

\* Read: "Set defaults"
NetworkProbeDefaults(d) ==
    [d EXCEPT !.ExpectSuccess = IF IsNull(@) THEN BoolValue(TRUE) ELSE @,
              !.Timeout = IF IsNull(@) THEN Int64Value(defaultProbeTimeout) ELSE @]

\* a validation that checks the port for every probe type
NetworkProbeInvalidPortAlways(d) ==
    IF IsNull(d.Type) \/ ValueString(d.Type) = "" THEN "type must be specified"
    ELSE IF IsNull(d.Host) \/ ValueString(d.Host) = "" THEN "host must be specified"
    ELSE IF IsNull(d.Port) THEN "port is required for tcp/udp probes"
    ELSE IF ValueInt64(d.Port) < 1 \/ ValueInt64(d.Port) > 65535
    THEN "port must be between 1 and 65535"
    ELSE IF ValueString(d.Type) \notin {"dns", "tcp", "udp", "icmp"}
    THEN "unsupported probe type: " \o ValueString(d.Type)
    ELSE ""

\* a validation without the range check of the port
NetworkProbeInvalidNoPortRange(d) ==
    IF IsNull(d.Type) \/ ValueString(d.Type) = "" THEN "type must be specified"
    ELSE IF IsNull(d.Host) \/ ValueString(d.Host) = "" THEN "host must be specified"
    ELSE IF ValueString(d.Type) \in {"tcp", "udp"} /\ IsNull(d.Port)
    THEN "port is required for tcp/udp probes"
    ELSE IF ValueString(d.Type) \notin {"dns", "tcp", "udp", "icmp"}
    THEN "unsupported probe type: " \o ValueString(d.Type)
    ELSE ""

\* Read's validation of type, host and port, and the default branch of its
\* switch: the detail of the error it adds, "" when the probe goes ahead
NetworkProbeInvalid(d) ==
    IF IsNull(d.Type) \/ ValueString(d.Type) = "" THEN "type must be specified"
    ELSE IF IsNull(d.Host) \/ ValueString(d.Host) = "" THEN "host must be specified"
    ELSE IF ValueString(d.Type) \in {"tcp", "udp"} /\ IsNull(d.Port)
    THEN "port is required for tcp/udp probes"
    ELSE IF ValueString(d.Type) \in {"tcp", "udp"}
            /\ (ValueInt64(d.Port) < 1 \/ ValueInt64(d.Port) > 65535)
    THEN "port must be between 1 and 65535"
    ELSE IF ValueString(d.Type) \notin {"dns", "tcp", "udp", "icmp"}
    THEN "unsupported probe type: " \o ValueString(d.Type)
    ELSE ""

\* the summary Read gives the error
NetworkProbeInvalidSummary(detail) ==
    CASE detail = "host must be specified" -> "Invalid host"
      [] detail = "port is required for tcp/udp probes" -> "Missing port"
      [] detail = "port must be between 1 and 65535" -> "Invalid port"
      [] OTHER -> "Invalid probe type"

\* no network operation yet
ProbeNone ==
    [op |-> "none", ctx |-> Background, opStart |-> 0, ipsLeft |-> 0]

\* the context Read creates for the probe
NetworkProbeCtx(c, t, d) == WithTimeout(c, t, ValueInt64(d.Timeout))

\* the first network operation of the probe: LookupHost in probeDNS,
\* LookupIPAddr in probeICMP, net.DialTimeout in probeTCP and probeUDP
ProbeStart(c, t, d) ==
    [op |-> IF ValueString(d.Type) \in {"dns", "icmp"} THEN "resolve" ELSE "dial",
     ctx |-> NetworkProbeCtx(c, t, d), opStart |-> t, ipsLeft |-> 0]

\* net.DefaultResolver.LookupHost(ctx, ...) and LookupIPAddr(ctx, ...) stop
\* waiting when ctx is done
ResolveWaitDone(p) == p.op = "resolve" /\ CtxErr(p.ctx) # NilErr
\* net.DialTimeout(network, addr, 5*time.Second) stops waiting after its timeout
DialWaitDone(p) == p.op = "dial" /\ now >= p.opStart + dialTimeout
ProbeWaitDone(p) == ResolveWaitDone(p) \/ DialWaitDone(p)

\* fmt.Sprintf("%s:%d", host, port)
Addr(d) == ValueString(d.Host) \o ":" \o ToString(ValueInt64(d.Port))

\* the failReason of probeDNS, probeTCP, probeUDP for the error of the operation
ProbeFailReason(d, cause) ==
    CASE ValueString(d.Type) = "dns" ->
             "DNS resolution failed: lookup " \o ValueString(d.Host) \o ": " \o cause
      [] ValueString(d.Type) = "tcp" ->
             "TCP connection failed: dial tcp " \o Addr(d) \o ": " \o cause
      [] ValueString(d.Type) = "udp" ->
             "UDP connection failed: dial udp " \o Addr(d) \o ": " \o cause
      [] OTHER ->
             "Failed to resolve host: lookup " \o ValueString(d.Host) \o ": " \o cause

\* a Read that reports a failed probe as an error
NetworkProbeFinishFailureIsError(d, success, failReason, dg, start, t) ==
    LET d1 == [d EXCEPT !.Success = BoolValue(success),
                        !.FailReason = StringValue(failReason),
                        !.DurationMs = Int64Value(Milliseconds(start, t))]
    IN IF success THEN [data |-> d1, diags |-> dg, state |-> StateSet(d1)]
       ELSE [data |-> d1, diags |-> AddError(dg, "Probe error", failReason),
             state |-> NoState]

\* Read from the return of the probe function (its err is always nil) to its own return
NetworkProbeFinish(d, success, failReason, dg, start, t) ==
    LET d1 == [d EXCEPT !.Success = BoolValue(success),
                        !.FailReason = StringValue(failReason),
                        !.DurationMs = Int64Value(Milliseconds(start, t))]
    IN [data |-> d1, diags |-> dg, state |-> StateSet(d1)]

---------------------------------------------------------------------------
(* terrapwner_exfil *)

\* Read's default for the timeout attribute, in seconds
defaultExfilTimeout == 10

\* the status codes the endpoint answers with
ExfilStatusCodes == {199, 200, 204, 299, 300, 404, 500}
ExfilContents == {"secret"}

ExfilModel(content, endpoint, timeout, expectSuccess) ==
    [Content |-> content, Endpoint |-> endpoint, Timeout |-> timeout,
     ExpectSuccess |-> expectSuccess, Success |-> BoolNull, FailReason |-> StringNull,
     ResponseCode |-> Int64Null]

\* Read: "Set default values"
ExfilDefaults(d) ==
    [d EXCEPT !.ExpectSuccess = IF IsNull(@) THEN BoolValue(TRUE) ELSE @]

\* Read: "Set timeout with default of 10 seconds"
ExfilTimeout(d) ==
    IF ~IsNull(d.Timeout) THEN ValueInt64(d.Timeout) ELSE defaultExfilTimeout

\* no request yet
ExfilNone ==
    [sent |-> FALSE, returned |-> FALSE, sentAt |-> 0, timeout |-> 0, status |-> 0,
     body |-> "", readOk |-> FALSE, err |-> NilErr]

\* Read up to client.Do: the error of http.NewRequestWithContext, "" when
\* the request is made
ExfilRequestError(d) ==
    IF UrlParses(ValueString(d.Endpoint)) THEN NilErr
    ELSE "parse \"" \o ValueString(d.Endpoint) \o "\": invalid port"

\* Read when http.NewRequestWithContext fails
ExfilRequestCreationFailed(d, err, dg) ==
    [data |-> d, state |-> NoState,
     diags |-> AddError(dg, "Request Creation Error", "Failed to create request: " \o err)]

\* Read when client.Do fails
ExfilDoFailed(d, err, dg) ==
    LET d1 == [d EXCEPT !.Success = BoolValue(FALSE),
                        !.FailReason = StringValue("Request failed: " \o err),
                        !.ResponseCode = Int64Value(0)]
    IN [data |-> d1, diags |-> dg, state |-> StateSet(d1)]

\* Read from the response of client.Do to its return
ExfilResponse(d, status, body, readOk, dg) ==
    IF ~readOk
    THEN LET d1 == [d EXCEPT !.Success = BoolValue(FALSE),
                             !.FailReason = StringValue("Failed to read response: unexpected EOF"),
                             !.ResponseCode = Int64Value(status)]
         IN [data |-> d1, diags |-> dg, state |-> StateSet(d1)]
    ELSE LET isSuccess == status >= 200 /\ status < 300
             d1 == [d EXCEPT !.Success = BoolValue(isSuccess),
                             !.ResponseCode = Int64Value(status)]
             d2 == IF ~isSuccess
                   THEN [d1 EXCEPT !.FailReason =
                            StringValue("HTTP " \o ToString(status) \o ": " \o body)]
                   ELSE d1
         IN IF ValueBool(d.ExpectSuccess) /\ ~isSuccess
            THEN [data |-> d2, state |-> NoState,
                  diags |-> AddError(dg, "Exfiltration Failed",
                                     "Expected successful exfiltration but got HTTP "
                                         \o ToString(status) \o ": " \o body)]
            ELSE [data |-> d2, diags |-> dg, state |-> StateSet(d2)]

\* the error of client.Do when the request's context is done or Client.Timeout passed
ExfilDoError(d, t, cancelAt) ==
    IF CtxErrAt(ctx, t, cancelAt) # NilErr
    THEN "Post \"" \o ValueString(d.Endpoint) \o "\": " \o CtxErrAt(ctx, t, cancelAt)
    ELSE "Post \"" \o ValueString(d.Endpoint) \o "\": " \o DeadlineExceeded
             \o " (Client.Timeout exceeded while awaiting headers)"

\* client.Do stops waiting for the endpoint
ExfilWaitDone(x) ==
    x.sent /\ ~x.returned /\ (CtxErr(ctx) # NilErr \/ now >= x.sentAt + x.timeout)

---------------------------------------------------------------------------
(* terrapwner_env_dump *)

\* the process has at most this many environment entries
MaxEnv == 3

\* entries of os.Environ(): "NAME=value", the value may be empty or hold a
\* "="; an entry without "=" is not a variable
EnvEntries ==
    {"A=1", "B=", "C=x=y", "novalue", "AWS_ACCESS_KEY_ID=key", "AWS_ACCESS_KEY_ID=",
     "AWS_REGION=eu-west-1"}

\* strings.Cut(str, sep) for a separator of one character
Cut(str, sep) ==
    LET idx == {i \in 1..Len(str) : SubSeq(str, i, i) = sep}
    IN IF idx = {} THEN [before |-> str, after |-> "", found |-> FALSE]
       ELSE LET i == CHOOSE j \in idx : \A k \in idx : j <= k
            IN [before |-> SubSeq(str, 1, i - 1), after |-> SubSeq(str, i + 1, Len(str)),
                found |-> TRUE]

\* a split at the last separator
CutLast(str, sep) ==
    LET idx == {i \in 1..Len(str) : SubSeq(str, i, i) = sep}
    IN IF idx = {} THEN [before |-> str, after |-> "", found |-> FALSE]
       ELSE LET i == CHOOSE j \in idx : \A k \in idx : j >= k
            IN [before |-> SubSeq(str, 1, i - 1), after |-> SubSeq(str, i + 1, Len(str)),
                found |-> TRUE]

\* os.Environ(): the runtime keeps one entry per name
Environs ==
    {e \in SeqsUpTo(EnvEntries, MaxEnv) :
        \A i, j \in 1..Len(e) : i # j => Cut(e[i], "=").before # Cut(e[j], "=").before}

\* types.Map
MapNull == [null |-> TRUE, v |-> <<>>]
MapValue(m) == [null |-> FALSE, v |-> m]
\* make(map[string]string) and m[k] = v
EmptyMap == [k \in {} |-> ""]
MapSet(m, k, v) == [x \in DOMAIN m \cup {k} |-> IF x = k THEN v ELSE m[x]]

Redacted == "<REDACTED>"

EnvDumpModel(maskValues) == [Vars |-> MapNull, Id |-> StringNull, MaskValues |-> maskValues]

\* a Read whose mask_values defaults to false
EnvDumpDefaultsUnmasked(d) ==
    [d EXCEPT !.MaskValues = IF IsNull(@) THEN BoolValue(FALSE) ELSE @]

\* Read: "Set default value for mask_values if not set"
EnvDumpDefaults(d) ==
    [d EXCEPT !.MaskValues = IF IsNull(@) THEN BoolValue(TRUE) ELSE @]

\* a Read that splits an entry at its last "="
EnvDumpCutLast(entry) == CutLast(entry, "=")

\* Read: "Split the environment variable into key and value"
EnvDumpCut(entry) == Cut(entry, "=")

\* Read: "Read all environment variables", the loop over os.Environ()
RECURSIVE ReadEnviron(_, _)
ReadEnviron(env, envVars) ==
    IF env = <<>> THEN envVars
    ELSE LET c == EnvDumpCut(Head(env))
         IN ReadEnviron(Tail(env),
                        IF c.found THEN MapSet(envVars, c.before, c.after) ELSE envVars)

\* a Read that masks only the values that are not empty
MaskValuesNonEmpty(envVars) ==
    [k \in DOMAIN envVars |-> IF envVars[k] = "" THEN "" ELSE Redacted]

\* Read: "If mask_values is true, mask the values"
MaskValues(envVars) == [k \in DOMAIN envVars |-> Redacted]

\* Read after the defaults
EnvDumpFinish(d, env, dg) ==
    LET envVars == ReadEnviron(env, EmptyMap)
        shown == IF ValueBool(d.MaskValues) THEN MaskValues(envVars) ELSE envVars
        d1 == [d EXCEPT !.Vars = MapValue(shown), !.Id = StringValue("env_dump")]
    IN [data |-> d1, diags |-> dg, state |-> StateSet(d1)]

---------------------------------------------------------------------------
(* terrapwner_identity *)

\* os.Getenv: the value of the entry with the name key, "" when there is none
RECURSIVE Getenv(_, _)
Getenv(env, key) ==
    IF env = <<>> THEN ""
    ELSE LET c == Cut(Head(env), "=")
         IN IF c.found /\ c.before = key THEN c.after ELSE Getenv(Tail(env), key)

\* strings.Split(str, sep), strings.SplitN(str, sep, n) for n > 0, strings.Join
RECURSIVE Split(_, _)
Split(str, sep) ==
    LET c == Cut(str, sep)
    IN IF c.found THEN <<c.before>> \o Split(c.after, sep) ELSE <<str>>
RECURSIVE SplitN(_, _, _)
SplitN(str, sep, n) ==
    LET c == Cut(str, sep)
    IN IF n > 1 /\ c.found THEN <<c.before>> \o SplitN(c.after, sep, n - 1) ELSE <<str>>
RECURSIVE Join(_, _)
Join(parts, sep) ==
    IF Len(parts) = 0 THEN ""
    ELSE IF Len(parts) = 1 THEN parts[1]
    ELSE parts[1] \o sep \o Join(Tail(parts), sep)

\* arn.Parse of the AWS SDK: an ARN has the prefix "arn:" and six sections
ArnParse(a) ==
    IF Len(a) < 4 \/ SubSeq(a, 1, 4) # "arn:"
    THEN [err |-> "arn: invalid prefix", Service |-> "", Resource |-> ""]
    ELSE LET sections == SplitN(a, ":", 6)
         IN IF Len(sections) # 6
            THEN [err |-> "arn: not enough sections", Service |-> "", Resource |-> ""]
            ELSE [err |-> NilErr, Service |-> sections[3], Resource |-> sections[6]]

\* what sts GetCallerIdentity may answer
AwsAccount == "123456789012"
AwsArns ==
    {"arn:aws:sts::123456789012:assumed-role/admin/session",
     "arn:aws:iam::123456789012:user/alice",
     "arn:aws:iam::123456789012:role/ci",
     "arn:aws:iam::123456789012:root",
     "arn:aws:iam",
     "not-an-arn"}

\* the AWS SDK was not called
AwsNone == [called |-> FALSE, loadOk |-> FALSE, stsOk |-> FALSE, account |-> "", arn |-> ""]
\* the outcomes of config.LoadDefaultConfig and GetCallerIdentity
AwsAnswers ==
    {[AwsNone EXCEPT !.called = TRUE],
     [AwsNone EXCEPT !.called = TRUE, !.loadOk = TRUE]}
    \cup {[called |-> TRUE, loadOk |-> TRUE, stsOk |-> TRUE, account |-> AwsAccount, arn |-> a] :
             a \in AwsArns}

IdentityModel ==
    [Id |-> StringNull, CloudProvider |-> StringNull, AccountId |-> StringNull,
     ResourceId |-> StringNull, CallerName |-> StringNull, CallerType |-> StringNull,
     SessionName |-> StringNull, Region |-> StringNull]

detectProviderAndEnvironment(env) ==
    IF Getenv(env, "AWS_ACCESS_KEY_ID") # ""
    THEN [provider |-> "aws",
          region |-> IF Getenv(env, "AWS_REGION") = "" THEN "us-east-1"
                     ELSE Getenv(env, "AWS_REGION")]
    ELSE [provider |-> "", region |-> ""]

\* [callerType, callerName, sessionName]
determineCallerInfo(service, resourceType, resourceID) ==
    IF service = "sts" /\ resourceType = "assumed-role"
    THEN LET parts == Split(resourceID, "/")
         IN IF Len(parts) = 2 THEN <<"assumed-role", parts[1], parts[2]>>
            ELSE <<"assumed-role", resourceID, "">>
    ELSE IF service = "iam" /\ resourceType = "role" THEN <<"role", resourceID, "">>
    ELSE IF service = "iam" /\ resourceType = "user" THEN <<"user", resourceID, "">>
    ELSE <<"unknown", resourceID, "">>

\* getAWSIdentity: [data, err]
getAWSIdentity(d, a) ==
    IF ~a.loadOk
    THEN [data |-> d, err |-> "unable to load AWS configuration: failed to load config"]
    ELSE IF ~a.stsOk
    THEN [data |-> d, err |-> "unable to get AWS identity: operation error STS: GetCallerIdentity"]
    ELSE LET d1 == [d EXCEPT !.AccountId = StringValue(a.account),
                             !.ResourceId = StringValue(a.arn)]
             parsedARN == ArnParse(a.arn)
             resourceParts == Split(parsedARN.Resource, "/")
         IN IF parsedARN.err # NilErr
            THEN [data |-> d1, err |-> "unable to parse ARN: " \o parsedARN.err]
            ELSE IF Len(resourceParts) < 2
            THEN [data |-> d1,
                  err |-> "invalid resource format in ARN: " \o parsedARN.Resource]
            ELSE LET info == determineCallerInfo(parsedARN.Service, resourceParts[1],
                                                 Join(Tail(resourceParts), "/"))
                 IN [data |-> [d1 EXCEPT !.CallerType = StringValue(info[1]),
                                         !.CallerName = StringValue(info[2]),
                                         !.SessionName = StringValue(info[3])],
                     err |-> NilErr]

\* Read: "set all fields to unknown"
IdentityUnknown(d) ==
    [d EXCEPT !.AccountId = StringValue("unknown"), !.ResourceId = StringValue("unknown"),
              !.CallerName = StringValue("unknown"), !.CallerType = StringValue("unknown"),
              !.SessionName = StringValue("unknown")]

\* a fallback that keeps what getAWSIdentity had already set
IdentityUnknownKeepsSet(d) ==
    [d EXCEPT !.AccountId = IF IsNull(@) THEN StringValue("unknown") ELSE @,
              !.ResourceId = IF IsNull(@) THEN StringValue("unknown") ELSE @,
              !.CallerName = StringValue("unknown"), !.CallerType = StringValue("unknown"),
              !.SessionName = StringValue("unknown")]

\* Read's fallback when getAWSIdentity fails
IdentityAwsFailed(d) == IdentityUnknown(d)

\* Read
IdentityFinish(d, env, a, dg) ==
    LET det == detectProviderAndEnvironment(env)
        d1 == [d EXCEPT !.CloudProvider = StringValue(det.provider),
                        !.Region = StringValue(det.region)]
        r == getAWSIdentity(d1, a)
        d2 == IF det.provider = "aws"
              THEN IF r.err # NilErr THEN IdentityAwsFailed(r.data) ELSE r.data
              ELSE IdentityUnknown(d1)
        dg2 == IF det.provider = "aws" /\ r.err # NilErr
               THEN AddWarning(dg, "Failed to get AWS identity", r.err)
               ELSE dg
        d3 == [d2 EXCEPT !.Id = StringValue(det.provider \o "-" \o ValueString(d2.AccountId))]
    IN [data |-> d3, diags |-> dg2, state |-> StateSet(d3)]

---------------------------------------------------------------------------
(* terrapwner_tfstate *)

\* the timeout Read passes to utils.Execute, in seconds
tfstateTimeout == 30

\* the root module has at most this many resources
MaxResources == 2

TfTypes == {"aws_s3_bucket", "null_resource"}
\* the outputs of a state: name -> sensitive
TfOutputs == {<<>>, [n \in {"password"} |-> TRUE], [n \in {"url"} |-> FALSE]}
\* the child modules of a root module: none, one without resources, one
\* with a resource
TfChildModules ==
    {<<>>, <<[address |-> "module.app", resources |-> <<>>]>>,
     <<[address |-> "module.app", resources |-> <<"null_resource">>]>>}

\* what `terraform show -json` prints: the JSON document of a state
\* (values.root_module.resources[].type, values.root_module.child_modules[]
\* with their address and resources[].type, values.outputs), or text that
\* is not JSON
TfJSON(resources, childModules, outputs) ==
    [json |-> TRUE, text |-> "", resources |-> resources, child_modules |-> childModules,
     outputs |-> outputs]
TfNotJSON(text) ==
    [json |-> FALSE, text |-> text, resources |-> <<>>, child_modules |-> <<>>,
     outputs |-> <<>>]
TfStdouts ==
    {TfJSON(r, c, o) : r \in SeqsUpTo(TfTypes, MaxResources),
                       c \in TfChildModules, o \in TfOutputs}
    \cup {TfNotJSON(""), TfNotJSON("Error: No state")}

TfstateModel ==
    [Success |-> BoolNull, RawJSON |-> StringNull, ResourceTypes |-> ListNull,
     ResourceCount |-> Int64Null, Providers |-> ListNull, Modules |-> ListNull,
     SensitiveOutputs |-> MapNull]

\* json.Unmarshal([]byte(result.Stdout), &state): the fields the struct
\* state declares; the rest of the document is dropped
Unmarshal(out) ==
    IF ~out.json
    THEN [err |-> IF out.text = "" THEN "unexpected end of JSON input"
                  ELSE "invalid character 'E' looking for beginning of value",
          Resources |-> <<>>, ChildModules |-> <<>>, Outputs |-> <<>>]
    ELSE [err |-> NilErr,
          Resources |-> [i \in 1..Len(out.resources) |-> [Type |-> out.resources[i]]],
          ChildModules |-> [i \in 1..Len(out.child_modules) |->
                               [Address |-> out.child_modules[i].address]],
          Outputs |-> [n \in DOMAIN out.outputs |-> [Sensitive |-> out.outputs[n]]]]

\* extractResourceInfo: the keys of resourceTypes and of providers
extractResourceTypes(resources) == {resources[i].Type : i \in 1..Len(resources)}
extractProviders(resources) ==
    {SplitN(resources[i].Type, "_", 2)[1] : i \in 1..Len(resources)}
\* extractModuleNames: the keys of modules
extractModuleNames(rootModule) ==
    {""} \cup {rootModule.ChildModules[i].Address : i \in 1..Len(rootModule.ChildModules)}
\* extractSensitiveOutputs
extractSensitiveOutputs(outputs) ==
    [n \in {m \in DOMAIN outputs : outputs[m].Sensitive} |-> TRUE]

\* mapToSlice: the keys of a map in the order of one iteration over it,
\* which Go does not fix
mapToSlice(m) ==
    {l \in SeqsUpTo(m, Cardinality(m)) :
        Len(l) = Cardinality(m) /\ \A i, j \in 1..Len(l) : l[i] = l[j] => i = j}

\* Read after utils.Execute returned an error
TfstateExecuteError(d, e, dg) ==
    [data |-> d, diags |-> AddError(dg, "Failed to read state", e.err), state |-> NoState]

\* Read after utils.Execute returned a result: the results it may produce
TfstateResults(d, e, dg) ==
    LET st == Unmarshal(e.result.Stdout)
    IN IF st.err # NilErr
       THEN {[data |-> d, diags |-> AddError(dg, "Failed to parse state JSON", st.err),
              state |-> NoState]}
       ELSE {LET d1 == [d EXCEPT !.Success = BoolValue(TRUE),
                                 !.RawJSON = StringValue(e.result.Stdout),
                                 !.ResourceCount = Int64Value(Len(st.Resources)),
                                 !.ResourceTypes = ListValue(uniqueTypes),
                                 !.Providers = ListValue(uniqueProviders),
                                 !.Modules = ListValue(uniqueModules),
                                 !.SensitiveOutputs =
                                     MapValue(extractSensitiveOutputs(st.Outputs))]
             IN [data |-> d1, diags |-> dg, state |-> StateSet(d1)] :
                uniqueTypes \in mapToSlice(extractResourceTypes(st.Resources)),
                uniqueProviders \in mapToSlice(extractProviders(st.Resources)),
                uniqueModules \in mapToSlice(extractModuleNames(st))}

\* Read from the return of utils.Execute to its own return
TfstateFinish(d, e, dg) ==
    IF e.err # NilErr THEN {TfstateExecuteError(d, e, dg)} ELSE TfstateResults(d, e, dg)

---------------------------------------------------------------------------
(* The state machine *)

\* the provider block: Configure reads none of it
ProviderModel(failOnError) == [FailOnError |-> failOnError]

NoData == [none |-> TRUE]
\* executeScript has not returned
NoScriptRet == [returned |-> FALSE, result |-> NilResult, err |-> NilErr]

Init ==
    /\ now = 0
    /\ pc = "idle"
    /\ ds = "none"
    /\ provider \in {ProviderModel(b) : b \in BoolAttrs}
    /\ config = NoData
    /\ data = NoData
    /\ ctx = Background
    /\ cancelledAt = NotYet
    /\ startTime = 0
    /\ exec = ExecNone
    /\ dl = DownloadNone
    /\ scriptRet = NoScriptRet
    /\ probe = ProbeNone
    /\ tmpFiles = {}
    /\ exfil = ExfilNone
    /\ environ = <<>>
    /\ aws = AwsNone
    /\ diags = <<>>
    /\ state = NoState
    /\ reads = <<>>
    /\ tmpDir = EmptyMap

\* Read returns with r: its model, its diagnostics, the state it wrote
Finish(r) ==
    /\ pc' = "done"
    /\ data' = r.data
    /\ diags' = r.diags
    /\ state' = r.state

Blocked == pc \in {"downloading", "executing", "probing", "exfiltrating"}

\* a helper that has stopped waiting returns before the clock advances
Urgent ==
    \/ pc = "executing" /\ ExecuteWaitDone(exec)
    \/ pc = "downloading" /\ DownloadWaitDone(dl)
    \/ pc = "probing" /\ ProbeWaitDone(probe)
    \/ pc = "exfiltrating" /\ ExfilWaitDone(exfil)

\* a second passes while Read is blocked
Tick ==
    /\ Blocked
    /\ ~Urgent
    /\ now < MaxTime
    /\ now' = now + 1
    /\ UNCHANGED <<reads, tmpDir,
                   exfil, environ, aws, pc, ds, provider, config, data, ctx, cancelledAt,
                   startTime, exec, dl,
                   scriptRet, probe, tmpFiles, diags, state>>

\* the caller cancels the context it passed to Read
CancelCtx ==
    /\ Blocked
    /\ ~Urgent
    /\ cancelledAt = NotYet
    /\ CtxErr(ctx) = NilErr
    /\ cancelledAt' = now
    /\ UNCHANGED <<reads, tmpDir,
                   exfil, environ, aws, now, pc, ds, provider, config, data, ctx, startTime,
                   exec, dl,
                   scriptRet, probe, tmpFiles, diags, state>>

(* terrapwner_local_exec: Read up to the point where utils.Execute waits *)
LocalExecRead ==
    /\ pc = "idle"
    /\ \E command \in CommandLists, timeout \in TimeoutAttrs, es \in BoolAttrs,
          foe \in BoolAttrs, c \in CallerCtxs :
          LET cfg == LocalExecModel(ListValue(command), timeout, es, foe)
              d == LocalExecDefaults(cfg)
              e == ExecuteStart(c, Head(command), Tail(command), ValueInt64(d.Timeout), now)
          IN /\ ds' = "local_exec"
             /\ config' = cfg
             /\ ctx' = c
             /\ startTime' = now
             /\ IF Len(command) = 0
                THEN Finish(LocalExecEmptyCommand(d, diags)) /\ exec' = exec
                ELSE IF e.returned
                THEN Finish(LocalExecFinish(d, e, diags, now, now)) /\ exec' = e
                ELSE /\ pc' = "executing"
                     /\ exec' = e
                     /\ data' = d
                     /\ UNCHANGED <<diags, state>>
    /\ UNCHANGED <<reads, tmpDir,
                   exfil, environ, aws, now, provider, cancelledAt, dl, scriptRet, probe,
                   tmpFiles>>

\* what executeScript returns for the Execute call e
ScriptReturned(e) ==
    [returned |-> TRUE, result |-> executeScript(e).result, err |-> executeScript(e).err]

\* the args of terrapwner_remote_exec as []string
ListArgs(d) == IF IsNull(d.Args) THEN <<>> ELSE d.Args.v

\* the Read in progress, from the return of utils.Execute to its own return;
\* terrapwner_remote_exec removes the script (defer os.Remove(scriptPath))
AfterExecute(e) ==
    /\ exec' = e
    /\ IF ds = "local_exec"
       THEN /\ Finish(LocalExecFinish(data, e, diags, startTime, now))
            /\ UNCHANGED <<scriptRet, tmpFiles>>
       ELSE IF ds = "tfstate"
       THEN /\ \E r \in TfstateFinish(data, e, diags) : Finish(r)
            /\ UNCHANGED <<scriptRet, tmpFiles>>
       ELSE /\ Finish(RemoteExecFinish(data, e, diags))
            /\ scriptRet' = ScriptReturned(e)
            /\ tmpFiles' = tmpFiles \ {dl.path}
    /\ UNCHANGED <<reads, tmpDir,
                   exfil, environ, aws, now, ds, provider, config, ctx, cancelledAt,
                   startTime, dl, probe>>

\* the command exits on its own and utils.Execute returns its result
ExecuteExit ==
    /\ pc = "executing"
    /\ ~ExecuteWaitDone(exec)
    /\ now - exec.startedAt <= MaxRunTime
    /\ \E code \in ExitCodes, out \in IF ds = "tfstate" THEN TfStdouts ELSE Stdouts,
          err \in Stderrs :
          AfterExecute(ExecuteExitReturn(exec, now, out, err, code))

\* the context of utils.Execute is done and Execute returns its error
ExecuteCtxDone ==
    /\ pc = "executing"
    /\ ExecuteWaitDone(exec)
    /\ AfterExecute(ExecuteCtxReturn(exec, now))

(* terrapwner_remote_exec: Read up to the point where client.Do waits *)
RemoteExecRead ==
    /\ pc = "idle"
    /\ \E url \in Urls, interpreter \in CommandNames,
          args \in {ListNull} \cup {ListValue(a) : a \in ArgLists},
          es \in BoolAttrs, foe \in BoolAttrs, c \in CallerCtxs, createTempOk \in BOOLEAN :
          LET cfg == RemoteExecModel(StringValue(url), StringValue(interpreter),
                                     args, es, foe)
              d == RemoteExecDefaults(cfg)
              f == DownloadStart(url, tmpFiles, createTempOk, now)
          IN /\ ds' = "remote_exec"
             /\ config' = cfg
             /\ ctx' = c
             /\ dl' = f
             /\ tmpFiles' = IF f.tmp # "" THEN tmpFiles \cup {f.tmp} ELSE tmpFiles
             /\ IF f.returned
                THEN Finish(RemoteExecDownloadFailed(d, downloadScript(f, TRUE).err, diags))
                ELSE /\ pc' = "downloading"
                     /\ data' = d
                     /\ UNCHANGED <<diags, state>>
    /\ UNCHANGED <<reads, tmpDir,
                   exfil, environ, aws, now, provider, cancelledAt, startTime, exec, scriptRet,
                   probe>>

\* terrapwner_remote_exec Read from the return of utils.DownloadFile (f) and
\* downloadScript (s) to the point where utils.Execute waits, or to its return
AfterDownload(f, s) ==
    /\ dl' = f
    /\ IF s.err # NilErr
       THEN /\ Finish(RemoteExecDownloadFailed(data, s.err, diags))
            /\ UNCHANGED <<exec, scriptRet, tmpFiles>>
       ELSE LET e == ExecuteStart(ctx, ValueString(data.Interpreter),
                                  ScriptArgs(s.path, ListArgs(data)), scriptTimeout, now)
            IN /\ exec' = e
               /\ IF e.returned
                  THEN /\ Finish(RemoteExecFinish(data, e, diags))
                       /\ scriptRet' = ScriptReturned(e)
                       /\ tmpFiles' = tmpFiles \ {s.path}
                  ELSE /\ pc' = "executing"
                       /\ UNCHANGED <<data, diags, state, scriptRet, tmpFiles>>
    /\ UNCHANGED <<reads, tmpDir,
                   exfil, environ, aws, now, ds, provider, config, ctx, cancelledAt, startTime,
                   probe>>

\* the server answers
DownloadAnswer ==
    /\ pc = "downloading"
    /\ ~DownloadWaitDone(dl)
    /\ now - dl.sentAt <= MaxLatency
    /\ \E status \in StatusCodes, body \in Bodies, copyOk \in BOOLEAN, absOk \in BOOLEAN,
          chmodOk \in BOOLEAN :
          LET f == DownloadResponse([dl EXCEPT !.status = status, !.body = body],
                                    status, body, copyOk, absOk)
          IN AfterDownload(f, downloadScript(f, chmodOk))

\* the transport fails: no such host, connection refused
DownloadTransportError ==
    /\ pc = "downloading"
    /\ ~DownloadWaitDone(dl)
    /\ now - dl.sentAt <= MaxLatency
    /\ LET f == DownloadReturn(dl, "", "failed to download file: Get \"" \o dl.url
                                          \o "\": dial tcp: lookup host: no such host")
       IN AfterDownload(f, downloadScript(f, TRUE))

\* the request's context is done, or Client.Timeout has passed
DownloadCtxDone ==
    /\ pc = "downloading"
    /\ DownloadWaitDone(dl)
    /\ LET f == DownloadReturn(dl, "", DownloadDoError(dl, now, cancelledAt))
       IN AfterDownload(f, downloadScript(f, TRUE))

(* terrapwner_network_probe: Read up to the point where the probe waits *)
NetworkProbeRead ==
    /\ pc = "idle"
    /\ \E type \in ProbeTypes, host \in ProbeHosts, port \in ProbePorts,
          es \in BoolAttrs, timeout \in ProbeTimeouts, c \in CallerCtxs :
          LET cfg == NetworkProbeModel(StringValue(type), StringValue(host), port,
                                       es, timeout)
              d == NetworkProbeDefaults(cfg)
              bad == NetworkProbeInvalid(d)
          IN /\ ds' = "network_probe"
             /\ config' = cfg
             /\ ctx' = c
             /\ startTime' = now
             /\ IF bad # ""
                THEN /\ Finish([data |-> d, state |-> NoState,
                                diags |-> AddError(diags, NetworkProbeInvalidSummary(bad), bad)])
                     /\ probe' = probe
                ELSE /\ pc' = "probing"
                     /\ probe' = ProbeStart(c, now, d)
                     /\ data' = d
                     /\ UNCHANGED <<diags, state>>
    /\ UNCHANGED <<reads, tmpDir,
                   exfil, environ, aws, now, provider, cancelledAt, exec, dl, scriptRet,
                   tmpFiles>>

\* the probe function returns (success, failReason, nil) and Read returns
ProbeReturn(success, failReason) ==
    /\ Finish(NetworkProbeFinish(data, success, failReason, diags, startTime, now))
    /\ probe' = [probe EXCEPT !.op = "done"]

\* probeICMP dials the next address
ProbeDial(ipsLeft) ==
    /\ probe' = [probe EXCEPT !.op = "dial", !.opStart = now, !.ipsLeft = ipsLeft]
    /\ UNCHANGED <<pc, data, diags, state>>

\* the network operation in progress ends: ok with n addresses, or with an error
ProbeStep(ok, n, cause) ==
    /\ CASE probe.op = "resolve" /\ ValueString(data.Type) = "dns" ->
                ProbeReturn(ok, IF ok THEN "" ELSE ProbeFailReason(data, cause))
         [] probe.op = "resolve" /\ ValueString(data.Type) = "icmp" ->
                IF ~ok THEN ProbeReturn(FALSE, ProbeFailReason(data, cause))
                ELSE IF n = 0 THEN ProbeReturn(FALSE, "No IP addresses found")
                ELSE ProbeDial(n)
         [] probe.op = "dial" /\ ValueString(data.Type) = "icmp" ->
                IF ok THEN ProbeReturn(TRUE, "")
                ELSE IF probe.ipsLeft > 1 THEN ProbeDial(probe.ipsLeft - 1)
                ELSE ProbeReturn(FALSE, "ICMP ping failed for all IP addresses")
         [] OTHER ->
                ProbeReturn(ok, IF ok THEN "" ELSE ProbeFailReason(data, cause))
    /\ UNCHANGED <<reads, tmpDir,
                   exfil, environ, aws, now, ds, provider, config, ctx, cancelledAt, startTime,
                   exec, dl,
                   scriptRet, tmpFiles>>

\* the resolver or the peer answers
ProbeAnswer ==
    /\ pc = "probing"
    /\ ~ProbeWaitDone(probe)
    /\ now - probe.opStart <= MaxLatency
    /\ \E ok \in BOOLEAN, n \in 0..MaxIPs :
          ProbeStep(ok, n, IF probe.op = "resolve" THEN "no such host"
                           ELSE "connect: connection refused")

\* the network operation in progress stops waiting
ProbeGiveUp ==
    /\ pc = "probing"
    /\ ProbeWaitDone(probe)
    /\ ProbeStep(FALSE, 0, IF probe.op = "resolve" /\ CtxErr(probe.ctx) = Canceled
                           THEN "operation was canceled" ELSE "i/o timeout")

(* terrapwner_exfil: Read up to the point where client.Do waits *)
ExfilRead ==
    /\ pc = "idle"
    /\ \E content \in ExfilContents, endpoint \in Urls, timeout \in TimeoutAttrs,
          es \in BoolAttrs, c \in CallerCtxs :
          LET cfg == ExfilModel(StringValue(content), StringValue(endpoint), timeout, es)
              d == ExfilDefaults(cfg)
              x == [ExfilNone EXCEPT !.timeout = ExfilTimeout(d), !.sentAt = now]
          IN /\ ds' = "exfil"
             /\ config' = cfg
             /\ ctx' = c
             /\ IF ExfilRequestError(d) # NilErr
                THEN /\ Finish(ExfilRequestCreationFailed(d, ExfilRequestError(d), diags))
                     /\ exfil' = exfil
                ELSE IF ~SchemeSupported(endpoint)
                THEN LET err == "Post \"" \o endpoint \o "\": unsupported protocol scheme"
                     IN /\ Finish(ExfilDoFailed(d, err, diags))
                        /\ exfil' = [x EXCEPT !.returned = TRUE, !.err = err]
                ELSE /\ pc' = "exfiltrating"
                     /\ exfil' = [x EXCEPT !.sent = TRUE]
                     /\ data' = d
                     /\ UNCHANGED <<diags, state>>
    /\ UNCHANGED <<reads, tmpDir,
                   now, provider, cancelledAt, startTime, exec, dl, scriptRet, probe,
                   tmpFiles, environ, aws>>

\* the endpoint answers, and io.ReadAll reads the body or fails
ExfilAnswer ==
    /\ pc = "exfiltrating"
    /\ ~ExfilWaitDone(exfil)
    /\ now - exfil.sentAt <= MaxLatency
    /\ \E status \in ExfilStatusCodes, body \in Bodies, readOk \in BOOLEAN :
          /\ Finish(ExfilResponse(data, status, body, readOk, diags))
          /\ exfil' = [exfil EXCEPT !.returned = TRUE, !.status = status, !.body = body,
                                    !.readOk = readOk]
    /\ UNCHANGED <<reads, tmpDir,
                   now, ds, provider, config, ctx, cancelledAt, startTime, exec, dl,
                   scriptRet, probe, tmpFiles, environ, aws>>

\* client.Do returns an error err
ExfilDoReturn(err) ==
    /\ Finish(ExfilDoFailed(data, err, diags))
    /\ exfil' = [exfil EXCEPT !.returned = TRUE, !.err = err]
    /\ UNCHANGED <<reads, tmpDir,
                   now, ds, provider, config, ctx, cancelledAt, startTime, exec, dl,
                   scriptRet, probe, tmpFiles, environ, aws>>

\* the transport fails: no such host, connection refused
ExfilTransportError ==
    /\ pc = "exfiltrating"
    /\ ~ExfilWaitDone(exfil)
    /\ now - exfil.sentAt <= MaxLatency
    /\ ExfilDoReturn("Post \"" \o ValueString(data.Endpoint)
                         \o "\": dial tcp: lookup host: no such host")

\* the request's context is done, or Client.Timeout has passed
ExfilCtxDone ==
    /\ pc = "exfiltrating"
    /\ ExfilWaitDone(exfil)
    /\ ExfilDoReturn(ExfilDoError(data, now, cancelledAt))

(* terrapwner_env_dump: Read *)
EnvDumpRead ==
    /\ pc = "idle"
    /\ \E maskValues \in BoolAttrs, env \in Environs :
          LET cfg == EnvDumpModel(maskValues)
          IN /\ ds' = "env_dump"
             /\ config' = cfg
             /\ environ' = env
             /\ Finish(EnvDumpFinish(EnvDumpDefaults(cfg), env, diags))
    /\ UNCHANGED <<reads, tmpDir,
                   now, provider, ctx, cancelledAt, startTime, exec, dl, scriptRet, probe,
                   tmpFiles, exfil, aws>>

(* terrapwner_identity: Read *)
IdentityRead ==
    /\ pc = "idle"
    /\ \E env \in Environs, a \in AwsAnswers :
          LET called == detectProviderAndEnvironment(env).provider = "aws"
          IN /\ aws' = IF called THEN a ELSE AwsNone
             /\ ds' = "identity"
             /\ config' = IdentityModel
             /\ environ' = env
             /\ Finish(IdentityFinish(IdentityModel, env, a, diags))
    /\ UNCHANGED <<reads, tmpDir,
                   now, provider, ctx, cancelledAt, startTime, exec, dl, scriptRet, probe,
                   tmpFiles, exfil>>

(* terrapwner_tfstate: Read up to the point where utils.Execute waits *)
TfstateRead ==
    /\ pc = "idle"
    /\ \E c \in CallerCtxs, found \in BOOLEAN :
          LET e == ExecuteStartFound(c, "terraform", <<"show", "-json">>, tfstateTimeout,
                                     now, found)
          IN /\ ds' = "tfstate"
             /\ config' = TfstateModel
             /\ ctx' = c
             /\ exec' = e
             /\ IF e.returned
                THEN \E r \in TfstateFinish(TfstateModel, e, diags) : Finish(r)
                ELSE /\ pc' = "executing"
                     /\ data' = TfstateModel
                     /\ UNCHANGED <<diags, state>>
    /\ UNCHANGED <<reads, tmpDir,
                   now, provider, cancelledAt, startTime, dl, scriptRet, probe, tmpFiles,
                   exfil, environ, aws>>

Next ==
    \/ Tick
    \/ CancelCtx
    \/ LocalExecRead
    \/ ExecuteExit
    \/ ExecuteCtxDone
    \/ RemoteExecRead
    \/ DownloadAnswer
    \/ DownloadTransportError
    \/ DownloadCtxDone
    \/ NetworkProbeRead
    \/ ProbeAnswer
    \/ ProbeGiveUp
    \/ ExfilRead
    \/ ExfilAnswer
    \/ ExfilTransportError
    \/ ExfilCtxDone
    \/ EnvDumpRead
    \/ IdentityRead
    \/ TfstateRead

Spec == Init /\ [][Next]_vars

---------------------------------------------------------------------------
(* Two terrapwner_remote_exec Reads at once: each Read has its own request,
   model struct and response; the temporary directory is what they share *)

Procs == {1, 2}

ConcUrls == {GoodUrl, BadSchemeUrl}
ConcStatusCodes == {StatusOK, 404}

\* a Read that has not started
ReadNone ==
    [pc |-> "idle", config |-> NoData, data |-> NoData, dl |-> DownloadNone,
     chmodOk |-> TRUE, exec |-> ExecNone, diags |-> <<>>, state |-> NoState]

\* what the interpreter does with the script it opens: it runs the content
\* of the file, or fails when the file is not there
ScriptMissing == [found |-> FALSE, content |-> ""]
ScriptOpen(dir, path) ==
    IF path \in DOMAIN dir THEN [found |-> TRUE, content |-> dir[path]] ELSE ScriptMissing
ScriptRun(script) ==
    IF ~script.found
    THEN [out |-> "", err |-> "sh: 0: cannot open script: No such file\n", code |-> 2]
    ELSE IF script.content = "echo hi\n" THEN [out |-> "hi\n", err |-> "", code |-> 0]
    ELSE [out |-> "", err |-> "", code |-> 0]

\* os.Remove
Remove(dir, path) == [n \in DOMAIN dir \ {path} |-> dir[n]]

\* the Read r returns with res
ReadFinish(r, res) ==
    [r EXCEPT !.pc = "done", !.data = res.data, !.diags = res.diags, !.state = res.state]

\* Read from the return of downloadScript (s) to its own return; the
\* interpreter runs to its end
ReadExecute(r, s, dir) ==
    LET e == ExecuteStart(Background, ValueString(r.data.Interpreter),
                          ScriptArgs(s.path, ListArgs(r.data)), scriptTimeout, 0)
        run == ScriptRun(ScriptOpen(dir, s.path))
        x == IF e.returned THEN e
             ELSE ExecuteExitReturn(e, 0, run.out, run.err, run.code)
    IN ReadFinish([r EXCEPT !.exec = x], RemoteExecFinish(r.data, x, r.diags))

seqVars ==
    <<now, pc, ds, provider, config, data, ctx, cancelledAt, startTime, exec, dl,
      scriptRet, probe, tmpFiles, exfil, environ, aws, diags, state>>

ConcInit ==
    /\ now = 0
    /\ pc = "idle"
    /\ ds = "none"
    /\ provider = ProviderModel(BoolNull)
    /\ config = NoData
    /\ data = NoData
    /\ ctx = Background
    /\ cancelledAt = NotYet
    /\ startTime = 0
    /\ exec = ExecNone
    /\ dl = DownloadNone
    /\ scriptRet = NoScriptRet
    /\ probe = ProbeNone
    /\ tmpFiles = {}
    /\ exfil = ExfilNone
    /\ environ = <<>>
    /\ aws = AwsNone
    /\ diags = <<>>
    /\ state = NoState
    /\ reads = [p \in Procs |-> ReadNone]
    /\ tmpDir = EmptyMap

\* Read of process p up to client.Do in utils.DownloadFile
ConcRead(p) ==
    /\ reads[p].pc = "idle"
    /\ \E url \in ConcUrls, interpreter \in CommandNames, foe \in BoolAttrs :
          LET cfg == RemoteExecModel(StringValue(url), StringValue(interpreter),
                                     ListNull, BoolNull, foe)
              d == RemoteExecDefaults(cfg)
              f == DownloadStart(url, DOMAIN tmpDir, TRUE, 0)
              r == [reads[p] EXCEPT !.config = cfg, !.data = d, !.dl = f]
          IN /\ tmpDir' = MapSet(tmpDir, f.tmp, "")
             /\ reads' = [reads EXCEPT ![p] =
                    IF f.returned
                    THEN ReadFinish(r, RemoteExecDownloadFailed(
                                           d, downloadScript(f, TRUE).err, <<>>))
                    ELSE [r EXCEPT !.pc = "downloading"]]
    /\ UNCHANGED seqVars

\* the server answers process p: DownloadFile returns, then downloadScript,
\* then Read starts the interpreter on the script
ConcDownloadAnswer(p) ==
    /\ reads[p].pc = "downloading"
    /\ \E status \in ConcStatusCodes, body \in Bodies, chmodOk \in BOOLEAN :
          LET f == DownloadResponse([reads[p].dl EXCEPT !.status = status, !.body = body],
                                    status, body, TRUE, TRUE)
              dir == IF status = StatusOK THEN MapSet(tmpDir, f.tmp, body) ELSE tmpDir
              s == downloadScript(f, chmodOk)
              r == [reads[p] EXCEPT !.dl = f, !.chmodOk = chmodOk]
          IN IF s.err # NilErr
             THEN /\ tmpDir' = dir
                  /\ reads' = [reads EXCEPT ![p] =
                         ReadFinish(r, RemoteExecDownloadFailed(r.data, s.err, r.diags))]
             ELSE /\ tmpDir' = dir
                  /\ reads' = [reads EXCEPT ![p] = [r EXCEPT !.pc = "executing"]]
    /\ UNCHANGED seqVars

\* the interpreter of process p opens the script and runs; Read returns and
\* its deferred os.Remove(scriptPath) runs
ConcExecute(p) ==
    /\ reads[p].pc = "executing"
    /\ reads' = [reads EXCEPT ![p] =
           ReadExecute(reads[p], downloadScript(reads[p].dl, TRUE), tmpDir)]
    /\ tmpDir' = Remove(tmpDir, reads[p].dl.path)
    /\ UNCHANGED seqVars

ConcNext ==
    \/ \E p \in Procs : ConcRead(p)
    \/ \E p \in Procs : ConcDownloadAnswer(p)
    \/ \E p \in Procs : ConcExecute(p)

ConcSpec == ConcInit /\ [][ConcNext]_vars

---------------------------------------------------------------------------
(* Properties of utils.Execute *)

Min(a, b) == IF a <= b THEN a ELSE b

\* Execute has returned while the command it started was still running
ExecuteGaveUp == exec.started /\ exec.returned /\ ~exec.exited

\* C1: utils.Execute never waits beyond the timeout it was passed, nor beyond
\* the deadline of the caller's context, and when the command has not exited
\* by then Execute returns at that moment with no result and the error
\* "context deadline exceeded".
C1_ExecuteTimesOut ==
    /\ pc = "executing" =>
           /\ now <= exec.startedAt + exec.timeout
           /\ ctx.hasDeadline => now <= ctx.deadline
    /\ ExecuteGaveUp /\ cancelledAt = NotYet =>
           /\ exec.err = DeadlineExceeded
           /\ exec.result.nil
           /\ exec.returnedAt =
                  IF ctx.hasDeadline
                  THEN Min(exec.startedAt + exec.timeout, ctx.deadline)
                  ELSE exec.startedAt + exec.timeout

\* Execute timed out on its timeout argument, the caller's context allowing more
C1_Witness ==
    /\ ExecuteGaveUp
    /\ cancelledAt = NotYet
    /\ exec.err = DeadlineExceeded
    /\ exec.returnedAt = exec.startedAt + exec.timeout
    /\ ~ctx.hasDeadline

\* C2: once the caller cancels the context while the command runs, utils.Execute
\* returns before the clock advances, with the error "context canceled", which
\* executeScript wraps.
C2_ExecuteCancelled ==
    /\ pc = "executing" /\ cancelledAt # NotYet => now = cancelledAt
    /\ exec.started /\ exec.returned /\ cancelledAt # NotYet =>
           /\ exec.err = Canceled
           /\ exec.result.nil
           /\ exec.returnedAt = cancelledAt
           /\ scriptRet.returned => scriptRet.err = "failed to execute script: " \o Canceled

\* the caller cancelled a second after the command started, well before the timeout
C2_Witness ==
    /\ exec.started /\ exec.returned
    /\ cancelledAt = exec.startedAt + 1
    /\ cancelledAt < exec.startedAt + exec.timeout
    /\ exec.err = Canceled

\* C3: for a command that exits on its own with code c, utils.Execute returns
\* no error and a result with ExitCode c and the command's standard output and
\* standard error in Stdout and Stderr, and so does executeScript.
C3_ExitCodeIsNoError ==
    exec.exited =>
        /\ exec.err = NilErr
        /\ ~exec.result.nil
        /\ exec.result.ExitCode = exec.proc.code
        /\ exec.result.Stdout = exec.proc.out
        /\ exec.result.Stderr = exec.proc.err
        /\ ds = "remote_exec" =>
               /\ scriptRet.returned
               /\ scriptRet.err = NilErr
               /\ ~scriptRet.result.nil
               /\ scriptRet.result.ExitCode = exec.proc.code
               /\ scriptRet.result.Stdout = exec.proc.out
               /\ scriptRet.result.Stderr = exec.proc.err

\* a script wrote to both streams and exited with a non-zero code
C3_Witness ==
    /\ ds = "remote_exec"
    /\ exec.exited
    /\ exec.proc.code # 0
    /\ exec.proc.out # ""
    /\ exec.proc.err # ""
    /\ scriptRet.returned

---------------------------------------------------------------------------
(* Properties of terrapwner_local_exec *)

\* fail_on_error is false or unset in the configuration
FailOnErrorOff == config.FailOnError \in {BoolNull, BoolValue(FALSE)}
FailOnErrorOn == config.FailOnError = BoolValue(TRUE)

\* a terrapwner_local_exec Read has returned after utils.Execute returned an error
LocalExecExecuteFailed ==
    pc = "done" /\ ds = "local_exec" /\ exec.returned /\ exec.err # NilErr
\* a terrapwner_local_exec Read has returned after the command exited with a non-zero code
LocalExecNonZero ==
    pc = "done" /\ ds = "local_exec" /\ exec.exited /\ exec.proc.code # 0

\* C4: when utils.Execute returns an error and fail_on_error is false or unset,
\* Read adds no error and writes success=false, exit_code=-1 and fail_reason
\* "Failed to execute command: <error>".
C4_LocalExecFallback ==
    LocalExecExecuteFailed /\ FailOnErrorOff =>
        /\ ~HasError(diags)
        /\ state.set
        /\ state.data.Success = BoolValue(FALSE)
        /\ state.data.ExitCode = Int64Value(-1)
        /\ state.data.FailReason = StringValue("Failed to execute command: " \o exec.err)

\* the command timed out and fail_on_error was left unset
C4_Witness ==
    /\ LocalExecExecuteFailed
    /\ config.FailOnError = BoolNull
    /\ exec.err = DeadlineExceeded
    /\ state.set

\* C5: a failed command (an Execute error or a non-zero exit code) gives an
\* error diagnostic and no state exactly when fail_on_error is true; otherwise
\* no error and a written state, which for a non-zero exit has success=false,
\* the exit code and fail_reason "".
C5_LocalExecFailOnError ==
    LocalExecExecuteFailed \/ LocalExecNonZero =>
        /\ FailOnErrorOn => HasError(diags) /\ ~state.set
        /\ FailOnErrorOff =>
               /\ ~HasError(diags)
               /\ state.set
               /\ LocalExecNonZero =>
                      /\ state.data.Success = BoolValue(FALSE)
                      /\ state.data.ExitCode = Int64Value(exec.proc.code)
                      /\ state.data.FailReason = StringValue("")

\* a non-zero exit with fail_on_error = true
C5_Witness ==
    /\ LocalExecNonZero
    /\ FailOnErrorOn
    /\ HasError(diags)
    /\ ~state.set

---------------------------------------------------------------------------
(* Properties of terrapwner_remote_exec *)

\* a terrapwner_remote_exec Read has returned after downloadScript returned an error
RemoteExecDownloadError == pc = "done" /\ ds = "remote_exec" /\ ~exec.called
\* a terrapwner_remote_exec Read has returned after executeScript returned an error
RemoteExecExecuteError ==
    pc = "done" /\ ds = "remote_exec" /\ exec.returned /\ exec.err # NilErr

\* C6: with expect_success = true, a script that ran and exited with a non-zero
\* code results in an error diagnostic.
C6_ExpectSuccessEnforced ==
    /\ pc = "done"
    /\ ds = "remote_exec"
    /\ config.ExpectSuccess = BoolValue(TRUE)
    /\ exec.exited
    /\ exec.proc.code # 0
    => HasError(diags)

\* C7: with fail_on_error false or unset, a download or execution failure is a
\* warning and not an error, and the state written holds success=false,
\* stdout="", stderr=<the error message> and exit_code=-1.
C7_RemoteExecWarns ==
    (RemoteExecDownloadError \/ RemoteExecExecuteError) /\ FailOnErrorOff =>
        /\ Len(diags) = 1
        /\ diags[1].severity = "warning"
        /\ diags[1].summary = IF exec.called THEN "Failed to execute script"
                              ELSE "Failed to download script"
        /\ diags[1].detail # ""
        /\ dl.err # NilErr => diags[1].detail = dl.err
        /\ exec.called => diags[1].detail = "failed to execute script: " \o exec.err
        /\ state.set
        /\ state.data.Success = BoolValue(FALSE)
        /\ state.data.Stdout = StringValue("")
        /\ state.data.Stderr = StringValue(diags[1].detail)
        /\ state.data.ExitCode = Int64Value(-1)

\* the server answered 404 and fail_on_error was left unset
C7_Witness ==
    /\ RemoteExecDownloadError
    /\ config.FailOnError = BoolNull
    /\ dl.err = "failed to download file: status code 404"
    /\ state.set

\* C8: with fail_on_error = true, a download or execution failure is an error
\* diagnostic that carries the error's text, and no state is written.
C8_RemoteExecFails ==
    (RemoteExecDownloadError \/ RemoteExecExecuteError) /\ FailOnErrorOn =>
        /\ Len(diags) = 1
        /\ diags[1].severity = "error"
        /\ diags[1].summary = IF exec.called THEN "Failed to execute script"
                              ELSE "Failed to download script"
        /\ diags[1].detail # ""
        /\ dl.err # NilErr => diags[1].detail = dl.err
        /\ exec.called => diags[1].detail = "failed to execute script: " \o exec.err
        /\ ~state.set

\* the interpreter could not be started and fail_on_error = true
C8_Witness ==
    /\ RemoteExecExecuteError
    /\ FailOnErrorOn
    /\ ~exec.started
    /\ HasError(diags)

\* C9: the provider's fail_on_error decides whether a download or execution
\* error in a Read is an error diagnostic (true) or is absorbed, the state
\* being written with default values (false).
C9_ProviderFailOnError ==
    \/ RemoteExecDownloadError
    \/ RemoteExecExecuteError
    \/ LocalExecExecuteFailed
    => /\ provider.FailOnError = BoolValue(TRUE) => HasError(diags) /\ ~state.set
       /\ provider.FailOnError = BoolValue(FALSE) => ~HasError(diags) /\ state.set

---------------------------------------------------------------------------
(* Properties of terrapwner_network_probe *)

\* C10: the resolve or connect attempt of a probe is abandoned no later than
\* the timeout attribute (default 5) after the probe starts.
C10_ProbeBoundedByTimeout ==
    pc = "probing" => now <= startTime + ValueInt64(data.Timeout)

\* the configuration of the probe is one Read accepts
ProbeTypeSupported == ValueString(config.Type) \in {"dns", "tcp", "udp", "icmp"}
ProbeHostGiven == ValueString(config.Host) # ""
ProbePortNeeded == ValueString(config.Type) \in {"tcp", "udp"}
ProbePortInRange ==
    ~IsNull(config.Port) /\ ValueInt64(config.Port) >= 1 /\ ValueInt64(config.Port) <= 65535
ProbeConfigValid ==
    ProbeTypeSupported /\ ProbeHostGiven /\ (ProbePortNeeded => ProbePortInRange)

\* the error details that correspond to what is wrong with the configuration;
\* an empty type has the detail emptyTypeDetail
ProbeErrorDetails(emptyTypeDetail) ==
    (IF ValueString(config.Type) = "" THEN {emptyTypeDetail} ELSE {})
    \cup (IF ~ProbeTypeSupported /\ ValueString(config.Type) # ""
          THEN {"unsupported probe type: " \o ValueString(config.Type)} ELSE {})
    \cup (IF ~ProbeHostGiven THEN {"host must be specified"} ELSE {})
    \cup (IF ProbePortNeeded /\ IsNull(config.Port)
          THEN {"port is required for tcp/udp probes"} ELSE {})
    \cup (IF ProbePortNeeded /\ ~IsNull(config.Port) /\ ~ProbePortInRange
          THEN {"port must be between 1 and 65535"} ELSE {})

\* a network operation only for a valid configuration; otherwise one error
\* with a corresponding detail, no resolve or dial, no state
ProbeValidated(emptyTypeDetail) ==
    ds = "network_probe" =>
       /\ probe.op # "none" => ProbeConfigValid
       /\ pc = "done" /\ ~ProbeConfigValid =>
             /\ probe.op = "none"
             /\ ~state.set
             /\ Len(diags) = 1
             /\ diags[1].severity = "error"
             /\ diags[1].detail \in ProbeErrorDetails(emptyTypeDetail)

\* C11 (as stated): Read performs a network operation only for a valid
\* configuration; in every other case it adds one of the four errors
\* "unsupported probe type: <type>", "host must be specified", "port is
\* required for tcp/udp probes", "port must be between 1 and 65535", does
\* not resolve or dial, and writes no state.
C11_ProbeValidatedAsStated ==
    ProbeValidated("unsupported probe type: " \o ValueString(config.Type))

\* C11 (amended): as stated, except that an empty type is reported as
\* "type must be specified".
C11_ProbeValidated == ProbeValidated("type must be specified")

C11_Witness ==
    /\ pc = "done" /\ ds = "network_probe"
    /\ ValueString(config.Type) = "tcp" /\ ProbeHostGiven
    /\ config.Port = Int64Value(65536)
    /\ probe.op = "none" /\ ~state.set
    /\ Len(diags) = 1 /\ diags[1].detail = "port must be between 1 and 65535"

\* the causes of a failed resolve in this model
ResolveCauses == {"no such host", "operation was canceled", "i/o timeout"}

\* C12: for type dns or icmp the port is ignored: whatever the port, Read
\* validates, starts and classifies the probe as it does for the same
\* configuration without a port, and never adds a port validation error.
C12_PortIgnored ==
    ds = "network_probe" /\ ValueString(config.Type) \in {"dns", "icmp"} =>
       LET d == NetworkProbeDefaults(config)
           d0 == NetworkProbeDefaults([config EXCEPT !.Port = Int64Null])
       IN /\ NetworkProbeInvalid(d) = NetworkProbeInvalid(d0)
          /\ ProbeStart(ctx, startTime, d) = ProbeStart(ctx, startTime, d0)
          /\ \A i \in 1..Len(diags) :
                diags[i].detail \notin {"port is required for tcp/udp probes",
                                        "port must be between 1 and 65535"}
          /\ pc = "done" =>
                IF NetworkProbeInvalid(d0) # ""
                THEN /\ ~state.set
                     /\ diags = AddError(<<>>, NetworkProbeInvalidSummary(NetworkProbeInvalid(d0)),
                                         NetworkProbeInvalid(d0))
                ELSE /\ diags = <<>>
                     /\ state.set
                     /\ state.data.Port = config.Port
                     /\ \/ /\ ValueBool(state.data.Success)
                           /\ ValueString(state.data.FailReason) = ""
                        \/ /\ ~ValueBool(state.data.Success)
                           /\ ValueString(state.data.FailReason) \in
                                 {ProbeFailReason(d0, c) : c \in ResolveCauses}
                                 \cup {"No IP addresses found",
                                       "ICMP ping failed for all IP addresses"}

C12_Witness ==
    /\ pc = "done" /\ ds = "network_probe"
    /\ ValueString(config.Type) = "icmp" /\ config.Port = Int64Value(65536)
    /\ state.set /\ ~ValueBool(state.data.Success)
    /\ ValueString(state.data.FailReason) = "ICMP ping failed for all IP addresses"

\* C13: a validated probe ends in a written state and never in an error
\* diagnostic: a failed probe as success=false with a non-empty fail_reason,
\* a successful one as success=true with fail_reason="", so that success
\* holds exactly when fail_reason is empty; duration_ms is set.
C13_ProbeClassified ==
    ds = "network_probe" /\ pc = "done" /\ ProbeConfigValid =>
       /\ probe.op = "done"
       /\ ~HasError(diags)
       /\ state.set
       /\ ~IsNull(state.data.Success)
       /\ ~IsNull(state.data.FailReason)
       /\ ValueBool(state.data.Success) <=> ValueString(state.data.FailReason) = ""
       /\ ~IsNull(state.data.DurationMs)
       /\ ValueInt64(state.data.DurationMs) = Milliseconds(startTime, now)

C13_Witness ==
    /\ ds = "network_probe" /\ pc = "done" /\ ProbeConfigValid
    /\ ValueString(config.Type) = "tcp"
    /\ state.set /\ ~ValueBool(state.data.Success)
    /\ ValueString(state.data.FailReason) = "TCP connection failed: dial tcp host:80: i/o timeout"
    /\ ValueInt64(state.data.DurationMs) = Milliseconds(0, dialTimeout)

---------------------------------------------------------------------------
(* Properties of utils.DownloadFile *)

\* filepath.Base for a path that does not end in a separator
RECURSIVE Base(_)
Base(path) ==
    IF \A i \in 1..Len(path) : SubSeq(path, i, i) # "/" THEN path
    ELSE Base(SubSeq(path, 2, Len(path)))

\* strings.HasPrefix
HasPrefix(str, prefix) ==
    Len(str) >= Len(prefix) /\ SubSeq(str, 1, Len(prefix)) = prefix

\* strings.Contains
Contains(str, sub) ==
    \E i \in 1..(Len(str) - Len(sub) + 1) : SubSeq(str, i, i + Len(sub) - 1) = sub

\* C16: utils.DownloadFile returns a path only with a nil error and only
\* when the server answered 200; then the file at that path holds exactly
\* the response body and its base name starts with "terrapwner-". For every
\* other status N it returns "" and "failed to download file: status code N".
C16_DownloadOnlyOn200 ==
    dl.returned =>
       /\ dl.path # "" <=> dl.err = NilErr
       /\ dl.path # "" =>
             /\ dl.status = StatusOK
             /\ dl.path = dl.tmp
             /\ dl.written = dl.body
             /\ HasPrefix(Base(dl.path), "terrapwner-")
       /\ dl.status \notin {0, StatusOK} =>
             /\ dl.path = ""
             /\ dl.err = "failed to download file: status code " \o ToString(dl.status)

C16_Witness ==
    /\ dl.returned /\ dl.status = StatusOK /\ dl.body = "echo hi\n"
    /\ dl.path = "/tmp/terrapwner-1" /\ dl.err = NilErr /\ dl.written = "echo hi\n"

\* DownloadFile sent the request and returned without a response
DownloadGaveUp == dl.sent /\ dl.returned /\ dl.status = 0

\* C17: once the context passed to utils.DownloadFile is cancelled or past
\* its deadline while the server has not responded, DownloadFile returns
\* before the clock advances, with an empty path and an error that contains
\* "context canceled" or "context deadline exceeded" respectively; an empty,
\* unsupported-scheme or malformed URL always yields an error.
C17_DownloadCtxDone ==
    /\ pc = "downloading" =>
          /\ cancelledAt # NotYet => now = cancelledAt
          /\ ctx.hasDeadline => now <= ctx.deadline
    /\ DownloadGaveUp /\ CtxErr(ctx) # NilErr =>
          /\ dl.path = ""
          /\ Contains(dl.err, CtxErr(ctx))
          /\ cancelledAt # NotYet => Contains(dl.err, "context canceled")
          /\ cancelledAt = NotYet => Contains(dl.err, "context deadline exceeded")
    /\ dl.called /\ dl.url \in {EmptyUrl, BadSchemeUrl, MalformedUrl} =>
          /\ dl.returned
          /\ dl.path = ""
          /\ dl.err # NilErr

\* the caller cancelled a second after the request was sent
C17_Witness ==
    /\ DownloadGaveUp
    /\ cancelledAt = dl.sentAt + 1
    /\ ~ctx.hasDeadline
    /\ dl.path = ""
    /\ Contains(dl.err, "context canceled")

---------------------------------------------------------------------------
(* Properties of terrapwner_exfil *)

\* the endpoint's answer arrived
ExfilResponded == ds = "exfil" /\ pc = "done" /\ exfil.returned /\ exfil.status # 0
\* client.Do returned an error
ExfilNoResponse == ds = "exfil" /\ pc = "done" /\ exfil.returned /\ exfil.status = 0
\* the content did not reach the endpoint, or the endpoint did not accept it
ExfilFailed ==
    \/ ExfilNoResponse
    \/ ExfilResponded /\ ~(exfil.readOk /\ exfil.status >= 200 /\ exfil.status < 300)

\* C14: whenever a response is received, success is true exactly when its
\* status code is 2xx, and response_code is that status code; without a
\* response success is false and response_code is 0.
C14_ExfilSuccessIs2xx ==
    /\ ExfilResponded =>
          /\ ValueBool(data.Success) <=> (exfil.status >= 200 /\ exfil.status < 300)
          /\ data.ResponseCode = Int64Value(exfil.status)
    /\ ExfilNoResponse =>
          /\ data.Success = BoolValue(FALSE)
          /\ data.ResponseCode = Int64Value(0)

\* C15: a failed exfiltration adds an error diagnostic when success is
\* expected (expect_success true or unset), however it failed; with
\* expect_success=false it adds no error and the state is written with
\* success=false and a fail_reason.
C15_ExfilExpectSuccess ==
    ExfilFailed =>
       IF IsNull(config.ExpectSuccess) \/ ValueBool(config.ExpectSuccess)
       THEN HasError(diags)
       ELSE /\ ~HasError(diags)
            /\ state.set
            /\ state.data.Success = BoolValue(FALSE)
            /\ ~IsNull(state.data.FailReason)
            /\ ValueString(state.data.FailReason) # ""

---------------------------------------------------------------------------
(* Properties of terrapwner_env_dump *)

\* the entries of the environment that set a variable
EnvVariables == {environ[i] : i \in 1..Len(environ)} \cap {e \in EnvEntries : Contains(e, "=")}
\* entry sets the variable name to value
Sets(entry, name, value) == ~Contains(name, "=") /\ entry = name \o "=" \o value
\* entry sets the variable name
SetsName(entry, name) == ~Contains(name, "=") /\ HasPrefix(entry, name \o "=")

EnvDumpDone == ds = "env_dump" /\ pc = "done"
EnvDumpMasked == IsNull(config.MaskValues) \/ ValueBool(config.MaskValues)

\* C18: with mask_values unset or true, vars has one key for every variable
\* of the environment, no other key, and every value is "<REDACTED>".
C18_EnvDumpMasked ==
    EnvDumpDone /\ EnvDumpMasked =>
       /\ state.set /\ diags = <<>>
       /\ ~IsNull(state.data.Vars)
       /\ LET envVars == state.data.Vars.v
          IN /\ \A e \in EnvVariables : \E k \in DOMAIN envVars : SetsName(e, k)
             /\ \A k \in DOMAIN envVars :
                   /\ envVars[k] = "<REDACTED>"
                   /\ \E e \in EnvVariables : SetsName(e, k)

C18_Witness ==
    /\ EnvDumpDone /\ IsNull(config.MaskValues)
    /\ environ = <<"A=1", "C=x=y", "novalue">>
    /\ DOMAIN state.data.Vars.v = {"A", "C"}
    /\ state.data.Vars.v["A"] = "<REDACTED>"
    /\ state.data.Vars.v["C"] = "<REDACTED>"

\* C19: with mask_values=false, vars maps the name of every variable of the
\* environment to its exact value, the entry being split at its first "=";
\* it has no key for a variable that is not set; id is always "env_dump".
C19_EnvDumpExact ==
    EnvDumpDone =>
       /\ state.set /\ diags = <<>>
       /\ state.data.Id = StringValue("env_dump")
       /\ ~EnvDumpMasked =>
             LET envVars == state.data.Vars.v
             IN /\ \A e \in EnvVariables : \E k \in DOMAIN envVars : Sets(e, k, envVars[k])
                /\ \A k \in DOMAIN envVars : \E e \in EnvVariables : Sets(e, k, envVars[k])

C19_Witness ==
    /\ EnvDumpDone /\ config.MaskValues = BoolValue(FALSE)
    /\ environ = <<"C=x=y", "novalue", "B=">>
    /\ DOMAIN state.data.Vars.v = {"B", "C"}
    /\ state.data.Vars.v["C"] = "x=y"
    /\ state.data.Vars.v["B"] = ""

---------------------------------------------------------------------------
(* Properties of terrapwner_identity *)

IdentityDone == ds = "identity" /\ pc = "done"
\* AWS_ACCESS_KEY_ID is set to a non-empty value
AwsDetected ==
    \E e \in EnvVariables : \E v \in {"key"} : Sets(e, "AWS_ACCESS_KEY_ID", v)
\* a step of getAWSIdentity fails: config load, GetCallerIdentity, ARN parse,
\* resource without "/"
AwsStepFailed ==
    \/ ~aws.loadOk
    \/ ~aws.stsOk
    \/ aws.arn \in {"not-an-arn", "arn:aws:iam", "arn:aws:iam::123456789012:root"}
\* the five identity fields are "unknown"
IdentityIsUnknown(d) ==
    /\ d.AccountId = StringValue("unknown")
    /\ d.ResourceId = StringValue("unknown")
    /\ d.CallerName = StringValue("unknown")
    /\ d.CallerType = StringValue("unknown")
    /\ d.SessionName = StringValue("unknown")

\* C20: Read never adds an error and always writes state; when AWS is
\* detected and a step of getAWSIdentity fails it adds a warning, the five
\* identity fields are "unknown" and id is "aws-unknown"; when no provider
\* is detected the five fields are "unknown" and there is no warning.
C20_IdentityNeverFails ==
    IdentityDone =>
       /\ ~HasError(diags)
       /\ state.set
       /\ AwsDetected /\ AwsStepFailed =>
             /\ aws.called
             /\ HasWarning(diags)
             /\ IdentityIsUnknown(state.data)
             /\ state.data.Id = StringValue("aws-unknown")
       /\ ~AwsDetected =>
             /\ diags = <<>>
             /\ IdentityIsUnknown(state.data)

\* GetCallerIdentity answered, the ARN of the root user has no "/"
C20_Witness ==
    /\ IdentityDone /\ AwsDetected
    /\ aws.stsOk /\ aws.arn = "arn:aws:iam::123456789012:root"
    /\ HasWarning(diags)
    /\ diags[1].detail = "invalid resource format in ARN: root"
    /\ state.data.Id = StringValue("aws-unknown")
    /\ state.data.ResourceId = StringValue("unknown")

---------------------------------------------------------------------------
(* terrapwner_tfstate: what Read reports of a state *)

\* the managed resources of a state document: those of the root module and
\* those of its child modules
RECURSIVE TfChildResources(_)
TfChildResources(mods) ==
    IF mods = <<>> THEN <<>> ELSE Head(mods).resources \o TfChildResources(Tail(mods))
TfManagedResources(doc) == doc.resources \o TfChildResources(doc.child_modules)

Elems(l) == {l[i] : i \in 1..Len(l)}
NoDuplicates(l) == \A i, j \in 1..Len(l) : l[i] = l[j] => i = j

TfstateWritten == ds = "tfstate" /\ pc = "done" /\ state.set

\* C21: when terrapwner_tfstate Read writes state, resource_count is the
\* number of managed resources of the Terraform state, those of child
\* modules included, and resource_types lists each resource type of the
\* state exactly once
C21_ResourceCountIsTotal ==
    TfstateWritten =>
        LET managed == TfManagedResources(exec.result.Stdout)
        IN /\ state.data.ResourceCount = Int64Value(Len(managed))
           /\ ~IsNull(state.data.ResourceTypes)
           /\ NoDuplicates(state.data.ResourceTypes.v)
           /\ Elems(state.data.ResourceTypes.v) = Elems(managed)

\* `terraform show -json` was started, finished within its timeout, exited
\* with code 0 and printed parseable JSON
TfstateReadSuccessfully ==
    /\ exec.started
    /\ exec.exited
    /\ exec.err = NilErr
    /\ exec.result.ExitCode = 0
    /\ exec.result.Stdout.json

\* C22: terrapwner_tfstate Read writes state, with success=true, only when
\* the state was read successfully; in every other case it adds an error
\* diagnostic and writes no state
C22_SuccessOnlyWhenRead ==
    (ds = "tfstate" /\ pc = "done") =>
        /\ state.set => state.data.Success = BoolValue(TRUE) /\ TfstateReadSuccessfully
        /\ ~TfstateReadSuccessfully => HasError(diags) /\ ~state.set

---------------------------------------------------------------------------
(* terrapwner_remote_exec: download, then execute *)

\* utils.DownloadFile returned the path of the downloaded script
ScriptDownloaded == dl.returned /\ dl.err = NilErr /\ dl.status = StatusOK /\ dl.path # ""

DiagSummaries(d) == {d[i].summary : i \in 1..Len(d)}

\* C24: in terrapwner_remote_exec Read the interpreter is invoked only after
\* the script has been downloaded successfully; a Read whose download failed
\* reports the download failure and never starts the interpreter; the
\* interpreter's arguments are the script path followed by the configured
\* args in their order
C24_DownloadThenExecute ==
    ds = "remote_exec" =>
        /\ exec.called =>
              /\ ScriptDownloaded
              /\ exec.startedAt >= dl.sentAt
              /\ exec.command = ValueString(config.Interpreter)
              /\ Len(exec.args) = 1 + Len(ListArgs(config))
              /\ exec.args[1] = dl.path
              /\ \A i \in 1..Len(ListArgs(config)) : exec.args[i + 1] = ListArgs(config)[i]
        /\ (pc = "done" /\ ~ScriptDownloaded) =>
              /\ ~exec.called
              /\ DiagSummaries(diags) = {"Failed to download script"}

\* the interpreter was invoked with the script and two arguments
C24_Witness ==
    /\ ds = "remote_exec"
    /\ pc = "done"
    /\ exec.called
    /\ exec.args = <<dl.path, "b", "a">>

---------------------------------------------------------------------------
(* terrapwner_local_exec: the command Read runs *)

\* C25: terrapwner_local_exec Read with an empty command list adds the error
\* "Command list cannot be empty", starts no process and writes no state;
\* with a non-empty list it runs the first element with the remaining
\* elements, in order, as arguments, under the timeout attribute in seconds,
\* 30 when unset
C25_LocalExecCommand ==
    ds = "local_exec" =>
        LET command == config.Command.v
        IN IF command = <<>>
           THEN /\ pc = "done"
                /\ diags = <<Diag("error", "Invalid command", "Command list cannot be empty")>>
                /\ ~exec.called
                /\ ~exec.started
                /\ ~state.set
           ELSE /\ exec.called
                /\ exec.command = command[1]
                /\ Len(exec.args) = Len(command) - 1
                /\ \A i \in 1..Len(exec.args) : exec.args[i] = command[i + 1]
                /\ exec.timeout = IF IsNull(config.Timeout) THEN 30 ELSE config.Timeout.v
                /\ exec.ctx = WithTimeout(ctx, exec.startedAt, exec.timeout)

\* a command with two arguments ran under the default timeout
C25_Witness ==
    /\ ds = "local_exec"
    /\ pc = "done"
    /\ config.Command.v = <<"sh", "a", "b">>
    /\ IsNull(config.Timeout)
    /\ exec.started
    /\ exec.timeout = 30

---------------------------------------------------------------------------
(* The attributes of a written state *)

\* Read wrote state after utils.Execute or downloadScript returned an error
ExecErrorPath ==
    \/ ds = "local_exec" /\ exec.err # NilErr
    \/ ds = "remote_exec" /\ (~exec.called \/ exec.err # NilErr)

\* C26: in every state written by terrapwner_local_exec Read or
\* terrapwner_remote_exec Read success is true if and only if exit_code is
\* 0, and on the error paths exit_code is -1 and success is false
C26_SuccessIffExitCodeZero ==
    (ds \in {"local_exec", "remote_exec"} /\ pc = "done" /\ state.set) =>
        /\ ~IsNull(state.data.Success)
        /\ ~IsNull(state.data.ExitCode)
        /\ state.data.Success.v <=> state.data.ExitCode.v = 0
        /\ ExecErrorPath =>
              state.data.ExitCode.v = 0 - 1 /\ state.data.Success.v = FALSE
        /\ ~ExecErrorPath => state.data.ExitCode.v = exec.proc.code

\* a script that exited with a non-zero code
C26_Witness ==
    /\ ds = "remote_exec"
    /\ pc = "done"
    /\ state.set
    /\ exec.exited
    /\ exec.proc.code = 1
    /\ state.data.Success = BoolValue(FALSE)

\* the computed attributes of the data sources' schemas
ComputedAttributes ==
    [local_exec |-> {"Success", "Stdout", "Stderr", "ExitCode", "FailReason", "DurationMs"},
     remote_exec |-> {"Success", "Stdout", "Stderr", "ExitCode"},
     exfil |-> {"Success", "FailReason", "ResponseCode"},
     network_probe |-> {"Success", "FailReason", "DurationMs"}]

\* C27: whenever a Read of terrapwner_local_exec, terrapwner_remote_exec,
\* terrapwner_exfil or terrapwner_network_probe writes state, no computed
\* attribute of the data source is left null
C27_ComputedAttributesSet ==
    (ds \in DOMAIN ComputedAttributes /\ state.set) =>
        \A a \in ComputedAttributes[ds] : ~IsNull(state.data[a])

---------------------------------------------------------------------------
(* terrapwner_remote_exec: the temporary file *)

\* C28: every temporary file utils.DownloadFile created for a
\* terrapwner_remote_exec Read has been removed when that Read returns
C28_TempFileRemoved ==
    (ds = "remote_exec" /\ pc = "done") => tmpFiles = {}

---------------------------------------------------------------------------
(* terrapwner_env_dump: what the masked output depends on *)

\* the name of the variable an entry sets, if it sets one
EntryNames ==
    [e \in EnvEntries |->
        {SubSeq(e, 1, j - 1) :
            j \in {k \in 1..Len(e) : /\ SubSeq(e, k, k) = "="
                                     /\ ~Contains(SubSeq(e, 1, k - 1), "=")}}]
\* the names of the variables an environment sets
EnvNames(env) == UNION {EntryNames[env[i]] : i \in 1..Len(env)}

\* the state a terrapwner_env_dump Read writes for mask_values and env
EnvDumpRun(maskValues, env) ==
    EnvDumpFinish(EnvDumpDefaults(EnvDumpModel(maskValues)), env, <<>>).state.data

\* C29: with mask_values unset or true, a terrapwner_env_dump Read in any
\* environment with the same variable names writes the same vars and id as
\* this one; and in this environment the key set of vars is the same with
\* mask_values=true and mask_values=false
C29_MaskedIndependentOfValues ==
    EnvDumpDone =>
        /\ EnvDumpMasked =>
              \A env2 \in Environs :
                  EnvNames(env2) = EnvNames(environ) =>
                      /\ EnvDumpRun(config.MaskValues, env2).Vars = state.data.Vars
                      /\ EnvDumpRun(config.MaskValues, env2).Id = state.data.Id
        /\ \A m \in BOOLEAN :
              DOMAIN EnvDumpRun(BoolValue(m), environ).Vars.v = DOMAIN state.data.Vars.v

\* a masked Read in an environment whose variable has another value, the
\* empty one, in an environment with the same names
C29_Witness ==
    /\ EnvDumpDone
    /\ EnvDumpMasked
    /\ environ = <<"A=1", "AWS_ACCESS_KEY_ID=key">>
    /\ EnvNames(<<"AWS_ACCESS_KEY_ID=", "A=1">>) = EnvNames(environ)
    /\ state.data.Vars.v = [k \in {"A", "AWS_ACCESS_KEY_ID"} |-> "<REDACTED>"]

---------------------------------------------------------------------------
(* expect_success in terrapwner_network_probe and terrapwner_local_exec *)

\* what a Read that returned r leaves behind: its diagnostics, whether it
\* wrote state, and the computed attributes
LocalExecOutcome(r) ==
    [diags |-> r.diags, written |-> r.state.set, success |-> r.data.Success,
     fail_reason |-> r.data.FailReason, exit_code |-> r.data.ExitCode,
     stdout |-> r.data.Stdout, stderr |-> r.data.Stderr]
NetworkProbeOutcome(r) ==
    [diags |-> r.diags, written |-> r.state.set, success |-> r.data.Success,
     fail_reason |-> r.data.FailReason]
ThisRead == [data |-> data, diags |-> diags, state |-> state]

\* the configuration of this Read with another expect_success
WithExpectSuccess(es) == [config EXCEPT !.ExpectSuccess = es]

\* this terrapwner_local_exec Read with expect_success = es and the same
\* behaviour of the command
LocalExecWith(es) ==
    LET d == LocalExecDefaults(WithExpectSuccess(es))
    IN IF config.Command.v = <<>> THEN LocalExecEmptyCommand(d, <<>>)
       ELSE LocalExecFinish(d, exec, <<>>, startTime, now)

\* this terrapwner_network_probe Read with expect_success = es and the same
\* behaviour of the probed host
NetworkProbeWith(es) ==
    LET d == NetworkProbeDefaults(WithExpectSuccess(es))
        bad == NetworkProbeInvalid(d)
    IN IF bad # ""
       THEN [data |-> d, state |-> NoState,
             diags |-> AddError(<<>>, NetworkProbeInvalidSummary(bad), bad)]
       ELSE NetworkProbeFinish(d, ValueBool(data.Success), ValueString(data.FailReason),
                               <<>>, startTime, now)

---------------------------------------------------------------------------
(* Concurrent Reads share no mutable state *)

\* the names os.CreateTemp gives two Reads
TempNames == {TempName({}), TempName({TempName({})})}

\* the Read r run alone: no other Read touches the temporary directory, and
\* the configuration, the name os.CreateTemp picks, the answer of the server
\* and that of os.Chmod are the same
ReadAlone(r) ==
    LET url == ValueString(r.config.URL)
        d == RemoteExecDefaults(r.config)
        others == CHOOSE o \in SUBSET TempNames : TempName(o) = r.dl.tmp
        f0 == DownloadStart(url, others, TRUE, 0)
        f1 == DownloadResponse([f0 EXCEPT !.status = r.dl.status, !.body = r.dl.body],
                               r.dl.status, r.dl.body, TRUE, TRUE)
        dir == MapSet([n \in others |-> ""], f0.tmp, r.dl.body)
        s == downloadScript(f1, r.chmodOk)
        r0 == [ReadNone EXCEPT !.config = r.config, !.data = d]
    IN IF f0.returned
       THEN ReadFinish(r0, RemoteExecDownloadFailed(d, downloadScript(f0, TRUE).err, <<>>))
       ELSE IF s.err # NilErr
       THEN ReadFinish(r0, RemoteExecDownloadFailed(d, s.err, <<>>))
       ELSE ReadExecute(r0, s, dir)

\* process p is between os.CreateTemp and its return
InFlight(p) == reads[p].pc \in {"downloading", "executing"}

\* C23: two terrapwner_remote_exec Reads that run concurrently download to
\* distinct temporary files, and the diagnostics and the state of each equal
\* those of the same Read run alone, in every interleaving
C23_ReadsShareNoState ==
    /\ \A p, q \in Procs :
          (p # q /\ InFlight(p) /\ InFlight(q)) => reads[p].dl.tmp # reads[q].dl.tmp
    /\ \A p \in Procs :
          reads[p].pc = "done" =>
              /\ reads[p].diags = ReadAlone(reads[p]).diags
              /\ reads[p].state = ReadAlone(reads[p]).state

\* both Reads were in flight at once with different scripts, and both have
\* run their own
C23_Witness ==
    /\ reads[1].pc = "done" /\ reads[2].pc = "done"
    /\ reads[1].dl.tmp # reads[2].dl.tmp
    /\ reads[1].dl.tmp # "" /\ reads[2].dl.tmp # ""
    /\ reads[1].exec.exited /\ reads[2].exec.exited
    /\ reads[1].state.set /\ reads[2].state.set
    /\ reads[1].state.data.Stdout = StringValue("hi\n")
    /\ reads[2].state.data.Stdout = StringValue("")

====
